---- MODULE Spec2Model ----
(***************************************************************************)
(* Model of the WLED Home Assistant integration's polling / command core.  *)
(*                                                                         *)
(*  - the two poll coordinators                                            *)
(*      custom_components/wled_jsonapi/coordinator.py                      *)
(*        WLEDJSONAPIDataCoordinator                                       *)
(*      custom_components/wled/coordinator.py  WLEDDataCoordinator         *)
(*    each taken with the outcome of its device client's call as input;    *)
(*  - the retry loops of the device clients                                *)
(*      custom_components/wled/api.py          WLEDAPIClient._request      *)
(*      custom_components/wled_jsonapi/api.py  WLEDJSONAPIClient._request  *)
(*    each taken with the outcome of every transport attempt as input;     *)
(*  - the methods of the device clients, the light entities, the playlist  *)
(*    activation and the presets refresh of the coordinator, the parser    *)
(*    of presets documents (wled_jsonapi/models.py), and the requests two  *)
(*    tasks of one coordinator hold in flight.                             *)
(***************************************************************************)
EXTENDS Integers, Sequences, FiniteSets, TLC

(***************************************************************************)
(* Bounds of the model.                                                    *)
(***************************************************************************)
\* Number of distinct documents the device can answer a poll with.
NumDocs == 2
\* Cap on the failure counter: a failing poll or command is not taken once
\* _failed_polls has reached this value (the counter itself is unbounded).
MaxFailedPolls == 3
\* Last instant of the clock; instants are whole hours, counted from 1.
MaxNow == 2
\* Cap on _presets_failed_updates, as for MaxFailedPolls.
MaxPresetsFailed == 1
MaxSessionCalls == 2

(***************************************************************************)
(* Program constants.                                                      *)
(***************************************************************************)
\* wled_jsonapi/const.py and wled/const.py: MAX_FAILED_POLLS = 3
MAX_FAILED_POLLS == 3
\* wled_jsonapi/const.py: PRESETS_UPDATE_INTERVAL = timedelta(hours=1)
PRESETS_UPDATE_INTERVAL == 1

\* "no value": Python's None for the cache, the last error, a result.
None == 0
Docs == 1..NumDocs
Instants == 1..MaxNow

(***************************************************************************)
(* The exception classes of wled_jsonapi/exceptions.py that reach the      *)
(* coordinator, with their base class.  "Exception" stands for any         *)
(* exception outside the hierarchy.  WLEDNetworkError is named by the code *)
(* only next to WLEDTimeoutError, which stands for both as an input.       *)
(***************************************************************************)
ErrorClasses ==
    { "WLEDTimeoutError", "WLEDAuthenticationError",
      "WLEDInvalidResponseError", "WLEDConnectionError", "WLEDHTTPError",
      "WLEDConnectionLifecycleError", "WLEDCommandError", "Exception" }

BaseClass(c) ==
    CASE c = "WLEDTimeoutError"             -> "WLEDConnectionError"
      [] c = "WLEDNetworkError"             -> "WLEDConnectionError"
      [] c = "WLEDHTTPError"                -> "WLEDConnectionError"
      [] c = "WLEDConnectionLifecycleError" -> "WLEDConnectionError"
      [] c = "WLEDInvalidJSONError"         -> "WLEDInvalidResponseError"
      [] c = "WLEDInvalidStateError"        -> "WLEDInvalidResponseError"
      [] c = "WLEDInvalidCommandError"      -> "WLEDCommandError"
      [] OTHER                              -> "Exception"

\* isinstance(error, cls): the hierarchy is two levels deep below Exception.
IsInstance(c, cls) == c = cls \/ BaseClass(c) = cls \/ cls = "Exception"

IsAnyInstance(c, classes) == \E cls \in classes : IsInstance(c, cls)

\* The poll coordinator.
VARIABLES
    coord,              \* which coordinator class was constructed
    failed_polls,       \* self._failed_polls
    available,          \* self._available
    connection_state,   \* self._connection_state (wled_jsonapi only)
    last_error,         \* self._last_error       (wled_jsonapi only)
    data,               \* self.data: the cached DeviceState, None or a document
    op,                 \* the last operation and how it ended for its caller
    last_good,          \* history: document of the most recent successful poll
    streak              \* history: consecutive countable poll failures

\* The presets cache of WLEDJSONAPIDataCoordinator, and the clock it reads.
VARIABLES
    now,                    \* datetime.now()
    presets_data,           \* self._presets_data
    presets_last_updated,   \* self._presets_last_updated, None or an instant
    presets_failed_updates  \* self._presets_failed_updates

\* One request of a device client, from its first transport attempt on.
VARIABLES
    client,         \* "WLEDAPIClient" | "simple" | "enhanced"
    pc,             \* "attempt" | "returned" | "raised"
    attempt,        \* the loop variable: index of the next attempt
    calls,          \* number of times the transport was invoked
    trace,          \* the transport outcomes so far, in order
    result,         \* what the request returned or raised
    retry_delay,    \* WLEDAPIClient: the local retry_delay, in seconds
    delays          \* the arguments of asyncio.sleep so far, in order

\* One call of a device client's method, against a device that gives the
\* same answer to every attempt of the call.
VARIABLES
    call            \* the method, its argument, the answer, and the outcome

\* One call of WLEDPresetsData.from_dict.
VARIABLES
    parse           \* the document handed over, and what the call ended with

\* The poll task and a command task of one coordinator, each at a point of
\* its current request to the device.
VARIABLES
    flight          \* per task: where it is, which request, which attempt

\* The calls of _async_update_presets_if_needed followed on their own.
VARIABLES
    probe           \* one call of test_connection: what get_info() ended
                    \* with and what the caller got

\* A poll and a command of one WLEDJSONAPIDataCoordinator in flight together.
VARIABLES
    overlap         \* where the poll and the command stand (the await each
                    \* is suspended at), what their client calls ended
                    \* with, and the coordinator's fields when they began

\* The HTTP session of one client object.
VARIABLES
    session         \* the client's _session and _close_session, the state
                    \* of the session it was given and of the one it made,
                    \* and the calls made on the client so far

\* The effect command.
VARIABLES
    effect_call     \* one call of set_effect / async_set_effect: the
                    \* arguments and the command handed to the sender

\* The calls of _async_update_presets_if_needed followed on their own.
VARIABLES
    presets_log     \* whether the last call asked the device, and the
                    \* instants at which self._presets_data was assigned

cvars == << coord, failed_polls, available, connection_state, last_error,
            data, op, last_good, streak >>

pvars == << now, presets_data, presets_last_updated, presets_failed_updates >>

rvars == << client, pc, attempt, calls, trace, result, retry_delay, delays >>

uvars == << call >>

mvars == << parse, flight, presets_log >>

xvars == << effect_call, probe, session, overlap >>

vars == << coord, failed_polls, available, connection_state, last_error,
           data, op, last_good, streak,
           now, presets_data, presets_last_updated, presets_failed_updates,
           client, pc, attempt, calls, trace, result, retry_delay, delays,
           call, parse, flight, presets_log,
           effect_call, probe, session, overlap >>

(***************************************************************************)
(* The record kept of the last operation: what was called, what the        *)
(* client answered, and what the caller of the operation got back.         *)
(*   kind     "init" | "poll" | "command"                                  *)
(*   outcome  "none" | "returned" | "UpdateFailed" | "raised"              *)
(*   value    the document returned (None when nothing was returned)       *)
(*   err      the exception class the client raised ("none" on success)    *)
(*   refresh  number of async_request_refresh() calls made                 *)
(*   status   HTTP status the device answered, 0 when the client's outcome *)
(*            was given directly                                           *)
(*   fp0, data0  _failed_polls and the cache before the operation          *)
(*   streak0  the history variable streak before the operation             *)
(*   presets_requested  whether the operation called                       *)
(*            client.get_essential_presets()                               *)
(*   steps    the calls a command made, in the order it made them, ending  *)
(*            with "return" or "raise"                                     *)
(*   method   the light-entity method of a "light" operation               *)
(***************************************************************************)
OpRecord(kind, outcome, value, err, refresh, status, fp0, data0) ==
    [ kind |-> kind, outcome |-> outcome, value |-> value, err |-> err,
      refresh |-> refresh, status |-> status, fp0 |-> fp0, data0 |-> data0,
      streak0 |-> streak, presets_requested |-> FALSE, steps |-> << >>,
      method |-> "none", playlist_id |-> None ]

\* Whether a sequence of steps goes through _handle_error.
HandledError(steps) ==
    \E i \in 1..Len(steps) : steps[i] = "_handle_error"

\* How many times a sequence of steps calls async_request_refresh().
NumRefreshes(steps) ==
    Cardinality({ i \in 1..Len(steps) : steps[i] = "async_request_refresh" })

(***************************************************************************)
(* WLEDJSONAPIDataCoordinator                                              *)
(***************************************************************************)

\* __init__: the fields a new coordinator starts with.
JInit ==
    /\ failed_polls = 0
    /\ available = TRUE
    /\ connection_state = "unknown"
    /\ last_error = "none"

\* _handle_error with "unknown" written by the network branch.
HandleError_NetworkUnknown(fp, error) ==
    IF IsAnyInstance(error, {"WLEDTimeoutError", "WLEDNetworkError"})
    THEN [ available |-> FALSE, failed_polls |-> fp + 1,
           connection_state |-> "unknown", last_error |-> error ]
    ELSE IF IsInstance(error, "WLEDAuthenticationError")
    THEN [ available |-> FALSE, failed_polls |-> fp,
           connection_state |-> "error", last_error |-> error ]
    ELSE [ available |-> FALSE, failed_polls |-> fp + 1,
           connection_state |-> "error", last_error |-> error ]

\* _handle_error(error): the new (_available, _failed_polls,
\* _connection_state, _last_error), branch by branch.
\* _handle_error with an authentication failure leaving _available alone.
HandleError_AuthKeepsAvailable(fp, error) ==
    IF error = "WLEDAuthenticationError"
    THEN [ available |-> TRUE, failed_polls |-> fp,
           connection_state |-> "error", last_error |-> error ]
    ELSE [ available |-> FALSE, failed_polls |-> fp + 1,
           connection_state |-> "error", last_error |-> error ]

HandleError(fp, error) ==
    IF IsAnyInstance(error, {"WLEDTimeoutError", "WLEDNetworkError"})
    THEN [ available |-> FALSE, failed_polls |-> fp + 1,
           connection_state |-> "error", last_error |-> error ]
    ELSE IF IsInstance(error, "WLEDAuthenticationError")
    THEN [ available |-> FALSE, failed_polls |-> fp,
           connection_state |-> "error", last_error |-> error ]
    ELSE IF IsAnyInstance(error, {"WLEDInvalidResponseError", "WLEDConnectionError"})
    THEN [ available |-> FALSE, failed_polls |-> fp + 1,
           connection_state |-> "error", last_error |-> error ]
    ELSE [ available |-> FALSE, failed_polls |-> fp + 1,
           connection_state |-> "error", last_error |-> error ]

\* _set_connection_state(state, error=None) as called with "connected":
\* the new (_available, _connection_state, _last_error).
\* _set_connection_state without "self._last_error = None" on "connected".
SetConnectionState_KeepsLastError(state, avail, lasterr) ==
    IF state = "connected"
    THEN [ available |-> TRUE, connection_state |-> state, last_error |-> lasterr ]
    ELSE IF state \in {"disconnected", "error"}
    THEN [ available |-> FALSE, connection_state |-> state, last_error |-> lasterr ]
    ELSE [ available |-> avail, connection_state |-> state, last_error |-> lasterr ]

SetConnectionState(state, avail, lasterr) ==
    IF state = "connected"
    THEN [ available |-> TRUE, connection_state |-> state, last_error |-> "none" ]
    ELSE IF state \in {"disconnected", "error"}
    THEN [ available |-> FALSE, connection_state |-> state, last_error |-> lasterr ]
    ELSE [ available |-> avail, connection_state |-> state, last_error |-> lasterr ]

\* JReturnsCached without the "self.data is not None" tests.
JReturnsCached_NoNoneTest(error, cache) ==
    IF IsAnyInstance(error, {"WLEDTimeoutError", "WLEDNetworkError",
                             "WLEDAuthenticationError",
                             "WLEDInvalidResponseError", "WLEDConnectionError"})
    THEN IsAnyInstance(error, {"WLEDTimeoutError", "WLEDNetworkError",
                               "WLEDInvalidResponseError", "WLEDConnectionError"})
    ELSE TRUE

\* _async_update_data, except clauses: TRUE when the failed poll returns
\* self.data to the framework, FALSE when it raises UpdateFailed.
JReturnsCached(error, cache) ==
    IF IsAnyInstance(error, {"WLEDTimeoutError", "WLEDNetworkError",
                             "WLEDAuthenticationError",
                             "WLEDInvalidResponseError", "WLEDConnectionError"})
    THEN /\ IsAnyInstance(error, {"WLEDTimeoutError", "WLEDNetworkError",
                                  "WLEDInvalidResponseError", "WLEDConnectionError"})
         /\ cache # None
    ELSE cache # None

\* The failures that count: those for which _handle_error adds one to
\* _failed_polls.
Countable(error) == HandleError(0, error).failed_polls = 1

(***************************************************************************)
(* Results of calls: a returned value or a raised exception class.         *)
(***************************************************************************)
Ok(v) == [ ok |-> TRUE, val |-> v, err |-> "none" ]
Raise(e) == [ ok |-> FALSE, val |-> None, err |-> e ]

\* What a device client's call can end with, seen from the coordinator.
ClientOutcomes == { Ok(d) : d \in Docs } \cup { Raise(e) : e \in ErrorClasses }

(***************************************************************************)
(* One transport attempt (session.get / session.post): the request times   *)
(* out, fails at network level, or the device answers with a status; a    *)
(* 200 answer carries a body holding the JSON object doc, or (doc = None)   *)
(* a body that is not JSON.                                                *)
(***************************************************************************)
Statuses == { 200, 401, 500 }

TransportOutcomes ==
    { [ kind |-> k, status |-> 0, doc |-> None ] : k \in {"timeout", "network"} }
    \cup { [ kind |-> "response", status |-> 200, doc |-> d ] :
             d \in Docs \cup { None } }
    \cup { [ kind |-> "response", status |-> st, doc |-> None ] :
             st \in Statuses \ {200} }

(***************************************************************************)
(* WLEDJSONAPIClient: what one request attempt makes of a transport        *)
(* outcome t.                                                              *)
(***************************************************************************)

\* WLEDConnectionLifecycleManager.validate_connection_health on a response:
\* raises for a status of 500 and above.
ValidateConnectionHealth(t) ==
    IF t.status >= 500 THEN Raise("WLEDConnectionLifecycleError") ELSE Ok(None)

\* execute_request_with_lifecycle_management: every exception of the
\* transport, and of the health check made inside the request context, is
\* wrapped in WLEDConnectionLifecycleError.
ExecuteRequestWithLifecycleManagement(t) ==
    IF t.kind # "response"
    THEN Raise("WLEDConnectionLifecycleError")
    ELSE IF ~ ValidateConnectionHealth(t).ok
    THEN Raise("WLEDConnectionLifecycleError")
    ELSE Ok(t.doc)

\* _execute_http_request: WLED exceptions are re-raised as they are; the
\* response is health-checked once more before it is returned.
ExecuteHttpRequest(t) ==
    LET r == ExecuteRequestWithLifecycleManagement(t)
    IN  IF ~ r.ok THEN r
        ELSE IF ~ ValidateConnectionHealth(t).ok
        THEN ValidateConnectionHealth(t)
        ELSE r

\* _validate_response_status: raise_for_status() raises for 400 and above,
\* turned into WLEDHTTPError; the function returns None otherwise.
ValidateResponseStatus(t) ==
    IF t.status >= 400 THEN Raise("WLEDHTTPError") ELSE Ok(None)

\* _parse_json_response: json.loads of the body; JSONDecodeError is turned
\* into WLEDInvalidJSONError.
ParseJsonResponse(t) ==
    IF t.doc = None THEN Raise("WLEDInvalidJSONError") ELSE Ok(t.doc)

\* monitor_connection_during_operation(response, name, async_func), with
\* called the result of calling async_func().  The value async_func()
\* returns is awaited: both callers pass a lambda around a plain function,
\* whose result (None, a dict) is not awaitable, so the await raises
\* TypeError, which the except Exception clause wraps.
MonitorConnectionDuringOperation(t, called) ==
    IF ~ ValidateConnectionHealth(t).ok
    THEN ValidateConnectionHealth(t)
    ELSE IF ~ called.ok
    THEN IF IsAnyInstance(called.err, {"WLEDConnectionLifecycleError",
                                       "WLEDConnectionError", "WLEDNetworkError"})
         THEN called
         ELSE Raise("WLEDConnectionLifecycleError")
    ELSE Raise("WLEDConnectionLifecycleError")

\* "not response_text or not response_text.strip()", for an answer that
\* tells what its body holds.
EmptyResponseText(t) == "body" \in DOMAIN t /\ t.body.json = "empty"

\* _handle_response: connection state, status validation, body, JSON.
HandleResponse(t) ==
    IF t.status >= 500
    THEN Raise("WLEDConnectionLifecycleError")
    ELSE LET sv == MonitorConnectionDuringOperation(t, ValidateResponseStatus(t))
         IN  IF ~ sv.ok THEN sv
             ELSE IF EmptyResponseText(t)
             THEN Raise("WLEDInvalidResponseError")
             ELSE LET parsed == MonitorConnectionDuringOperation(t, ParseJsonResponse(t))
                  IN  parsed

\* One attempt: _execute_http_request followed by _handle_response.
JAttempt(t) ==
    LET r == ExecuteHttpRequest(t)
    IN  IF ~ r.ok THEN r ELSE HandleResponse(t)

\* _request_with_enhanced_retry: a single attempt; the WLED connection
\* classes are re-raised, any other exception becomes WLEDConnectionError.
RequestWithEnhancedRetry(t) ==
    LET r == JAttempt(t)
    IN  IF r.ok THEN r
        ELSE IF IsInstance(r.err, "WLEDConnectionError") THEN r
        ELSE Raise("WLEDConnectionError")

\* get_full_state of a client in its default mode: _request("GET", ""),
\* WLEDConnectionError and WLEDInvalidResponseError re-raised, anything
\* else wrapped in WLEDConnectionError.
GetFullState(t) ==
    LET r == RequestWithEnhancedRetry(t)
    IN  IF r.ok THEN r
        ELSE IF IsAnyInstance(r.err, {"WLEDConnectionError", "WLEDInvalidResponseError"})
        THEN r
        ELSE Raise("WLEDConnectionError")

(***************************************************************************)
(* The framework (DataUpdateCoordinator) around _async_update_data: the    *)
(* value a poll returns becomes self.data; when the poll raises            *)
(* UpdateFailed, self.data is left as it was.                              *)
(***************************************************************************)
FrameworkData(res, cache) ==
    IF res.outcome = "returned" THEN res.value ELSE cache

(***************************************************************************)
(* WLEDJSONAPIDataCoordinator._async_update_presets_if_needed              *)
(***************************************************************************)
\* The device holds one preset, and one playlist or none.
PresetIds == { 1 }
PlaylistIds == { 2 }

\* What client.get_essential_presets() can end with: the ids of the presets
\* and of the playlists it extracted, or an exception.
PresetsAnswers == [ presets : { PresetIds }, playlists : SUBSET PlaylistIds ]

POk(p) == [ ok |-> TRUE, val |-> p, err |-> "none" ]
PRaise(e) == [ ok |-> FALSE, val |-> [ presets |-> {}, playlists |-> {} ],
               err |-> e ]

PresetsOutcomes ==
    { POk(p) : p \in PresetsAnswers }
    \cup { PRaise(e) : e \in {"WLEDPresetError"} }

\* self._presets_data: not loaded (None), or a WLEDPresetsData.
NoPresetsData == [ loaded |-> FALSE, presets |-> {}, playlists |-> {} ]

\* WLEDPresetsData.from_dict({str(id): {"n": name}}): no entry carries a
\* "playlist" key, so every entry becomes a preset.
PresetsDataFromDict(ids) ==
    [ loaded |-> TRUE, presets |-> ids, playlists |-> {} ]

\* "never updated, or PRESETS_UPDATE_INTERVAL and more ago".
PresetsDue(n, plast) ==
    plast = None \/ n - plast >= PRESETS_UPDATE_INTERVAL

\* The presets fields after _async_update_presets_if_needed() at instant n,
\* po being the outcome of client.get_essential_presets().  The loop over
\* the playlists calls WLEDPlaylist.from_playlist_response, which the class
\* does not define: with a playlist in the answer the AttributeError is
\* caught by "except Exception" after _presets_data was assigned.
PresetsRefresh(po, n, pdata, plast, pfailed) ==
    IF ~ PresetsDue(n, plast)
    THEN [ data |-> pdata, last_updated |-> plast, failed |-> pfailed,
           requested |-> FALSE ]
    ELSE IF ~ po.ok
    THEN [ data |-> pdata, last_updated |-> plast, failed |-> pfailed + 1,
           requested |-> TRUE ]
    ELSE IF po.val.playlists # {}
    THEN [ data |-> PresetsDataFromDict(po.val.presets), last_updated |-> plast,
           failed |-> pfailed + 1, requested |-> TRUE ]
    ELSE [ data |-> PresetsDataFromDict(po.val.presets), last_updated |-> n,
           failed |-> 0, requested |-> TRUE ]

\* What get_essential_presets() can end with when the refresh is followed
\* on its own: any of the presets 1, 3 and 4 with or without the playlist,
\* or one of the exceptions the two except clauses catch.
RefreshOutcomes ==
    { POk(p) : p \in [ presets : SUBSET (PresetIds \cup {3, 4}),
                       playlists : SUBSET PlaylistIds ] }
    \cup { PRaise(e) : e \in { "WLEDTimeoutError", "WLEDNetworkError",
                               "WLEDPresetError", "WLEDConnectionError",
                               "WLEDInvalidResponseError", "Exception" } }

\* The exception the call caught: the one get_essential_presets() raised,
\* or the AttributeError of the playlist loop.
RefreshCaught(po, pr) ==
    IF ~ pr.requested THEN "none"
    ELSE IF ~ po.ok THEN po.err
    ELSE IF po.val.playlists # {} THEN "AttributeError"
    ELSE "none"

\* No call yet: the cache was never assigned.
NoRefresh ==
    [ called |-> FALSE, requested |-> FALSE, caught |-> "none",
      reported |-> {}, loaded0 |-> None, loaded_at |-> None ]

\* One call of _async_update_presets_if_needed() at instant now.  The
\* record keeps the playlists the device reported in this call and the
\* instant at which self._presets_data was last assigned
\* from the device's answer, before the call (loaded0) and after it.
UpdatePresetsIfNeeded ==
    /\ coord = "wled_jsonapi"
    /\ \E po \in RefreshOutcomes :
         LET pr == PresetsRefresh(po, now, presets_data, presets_last_updated,
                                  presets_failed_updates)
         IN  /\ pr.failed <= MaxPresetsFailed
             /\ presets_data' = pr.data
             /\ presets_last_updated' = pr.last_updated
             /\ presets_failed_updates' = pr.failed
             /\ presets_log' =
                   [ called |-> TRUE, requested |-> pr.requested,
                     caught |-> RefreshCaught(po, pr),
                     reported |-> IF pr.requested /\ po.ok
                                  THEN po.val.playlists ELSE {},
                     loaded0 |-> presets_log.loaded_at,
                     loaded_at |-> IF pr.requested /\ po.ok
                                   THEN now ELSE presets_log.loaded_at ]
    /\ UNCHANGED now
    /\ UNCHANGED cvars
    /\ UNCHANGED rvars
    /\ UNCHANGED uvars
    /\ UNCHANGED << parse, flight >>
    /\ UNCHANGED xvars

(***************************************************************************)
(* WLEDJSONAPIDataCoordinator._async_update_data                           *)
(***************************************************************************)

\* JPollResult with a failed poll returning None in place of self.data.
JPollResult_DropsCache(r, cache) ==
    IF r.ok
    THEN [ outcome |-> "returned", value |-> r.val ]
    ELSE [ outcome |-> "returned", value |-> None ]

\* What the poll hands to the framework, r being the outcome of
\* client.get_full_state() and cache the value of self.data.
JPollResult(r, cache) ==
    IF r.ok
    THEN [ outcome |-> "returned", value |-> r.val ]
    ELSE IF JReturnsCached(r.err, cache)
    THEN [ outcome |-> "returned", value |-> cache ]
    ELSE [ outcome |-> "UpdateFailed", value |-> None ]

\* JPollFields without "self._failed_polls = 0" on success.
JPollFields_NoReset(r, fp, avail, lasterr) ==
    IF r.ok
    THEN LET c == SetConnectionState("connected", avail, lasterr)
         IN  [ available |-> c.available, failed_polls |-> fp,
               connection_state |-> c.connection_state,
               last_error |-> c.last_error ]
    ELSE HandleError(fp, r.err)

\* The coordinator's fields after the poll.
JPollFields(r, fp, avail, lasterr) ==
    IF r.ok
    THEN LET c == SetConnectionState("connected", avail, lasterr)
         IN  [ available |-> c.available, failed_polls |-> 0,
               connection_state |-> c.connection_state,
               last_error |-> c.last_error ]
    ELSE HandleError(fp, r.err)

\* DoJPoll with a failed presets refresh handled as a failure of the poll.
DoJPoll_PresetsFailureFailsPoll(r, status, po) ==
    LET pr  == IF r.ok
               THEN PresetsRefresh(po, now, presets_data, presets_last_updated,
                                   presets_failed_updates)
               ELSE [ data |-> presets_data,
                      last_updated |-> presets_last_updated,
                      failed |-> presets_failed_updates, requested |-> FALSE ]
        r2  == IF r.ok /\ pr.failed > presets_failed_updates
               THEN Raise("WLEDConnectionError") ELSE r
        f   == JPollFields(r2, failed_polls, available, last_error)
        res == JPollResult(r2, data)
    IN  /\ f.failed_polls <= MaxFailedPolls
        /\ pr.failed <= MaxPresetsFailed
        /\ UNCHANGED now
        /\ presets_data' = pr.data
        /\ presets_last_updated' = pr.last_updated
        /\ presets_failed_updates' = pr.failed
        /\ failed_polls' = f.failed_polls
        /\ available' = f.available
        /\ connection_state' = f.connection_state
        /\ last_error' = f.last_error
        /\ data' = FrameworkData(res, data)
        /\ op' = [ OpRecord("poll", res.outcome, res.value, r2.err, 0, status,
                            failed_polls, data)
                    EXCEPT !.presets_requested = pr.requested ]
        /\ last_good' = IF r2.ok THEN r2.val ELSE last_good
        /\ streak' = IF r2.ok \/ ~ Countable(r2.err) THEN 0 ELSE streak + 1
        /\ UNCHANGED coord
        /\ UNCHANGED rvars
        /\ UNCHANGED uvars
        /\ UNCHANGED mvars
        /\ UNCHANGED xvars

\* The poll: po is read only when the state call succeeded.
DoJPoll(r, status, po) ==
    LET f   == JPollFields(r, failed_polls, available, last_error)
        res == JPollResult(r, data)
        pr  == IF r.ok
               THEN PresetsRefresh(po, now, presets_data, presets_last_updated,
                                   presets_failed_updates)
               ELSE [ data |-> presets_data,
                      last_updated |-> presets_last_updated,
                      failed |-> presets_failed_updates, requested |-> FALSE ]
    IN  /\ f.failed_polls <= MaxFailedPolls
        /\ pr.failed <= MaxPresetsFailed
        /\ UNCHANGED now
        /\ presets_data' = pr.data
        /\ presets_last_updated' = pr.last_updated
        /\ presets_failed_updates' = pr.failed
        /\ failed_polls' = f.failed_polls
        /\ available' = f.available
        /\ connection_state' = f.connection_state
        /\ last_error' = f.last_error
        /\ data' = FrameworkData(res, data)
        /\ op' = [ OpRecord("poll", res.outcome, res.value, r.err, 0, status,
                            failed_polls, data)
                    EXCEPT !.presets_requested = pr.requested ]
        /\ last_good' = IF r.ok THEN r.val ELSE last_good
        /\ streak' = IF r.ok \/ ~ Countable(r.err) THEN 0 ELSE streak + 1
        /\ UNCHANGED coord
        /\ UNCHANGED rvars
        /\ UNCHANGED uvars
        /\ UNCHANGED mvars
        /\ UNCHANGED xvars

\* A poll, given the outcome of the client's call.
JPoll ==
    /\ coord = "wled_jsonapi"
    /\ \E r \in ClientOutcomes :
         IF r.ok
         THEN \E po \in PresetsOutcomes : DoJPoll(r, 0, po)
         ELSE DoJPoll(r, 0, PRaise("none"))

\* A poll against a device: the client (default mode) makes one transport
\* attempt and turns its outcome into the result of get_full_state().
JPollDevice ==
    /\ coord = "wled_jsonapi"
    /\ \E t \in TransportOutcomes :
         IF GetFullState(t).ok
         THEN \E po \in PresetsOutcomes :
                 DoJPoll(GetFullState(t), t.status, po)
         ELSE DoJPoll(GetFullState(t), t.status, PRaise("none"))

(***************************************************************************)
(* WLEDJSONAPIDataCoordinator.async_send_command                           *)
(***************************************************************************)

\* The class re-raised to the caller when client.update_state raised error.
JCommandRaises(error) ==
    IF IsAnyInstance(error, {"WLEDTimeoutError", "WLEDNetworkError",
                             "WLEDAuthenticationError", "WLEDConnectionError",
                             "WLEDInvalidResponseError", "WLEDCommandError"})
    THEN error
    ELSE "WLEDCommandError"

\* A command that is not a non-empty dict: the client is not called.
InvalidCommand == [ ok |-> FALSE, val |-> None, err |-> "invalid command" ]

\* JCommandSteps with the refresh requested before the command is sent.
JCommandSteps_RefreshFirst(r) ==
    IF r = InvalidCommand
    THEN << "raise" >>
    ELSE IF r.ok
    THEN << "async_request_refresh", "client.update_state", "return" >>
    ELSE << "client.update_state", "_handle_error", "raise" >>

\* async_send_command, statement by statement: the calls it makes when
\* client.update_state(command) ends as r.
JCommandSteps(r) ==
    IF r = InvalidCommand
    THEN << "raise" >>
    ELSE IF r.ok
    THEN << "client.update_state", "async_request_refresh", "return" >>
    ELSE << "client.update_state", "_handle_error", "raise" >>

JSendCommand ==
    /\ coord = "wled_jsonapi"
    /\ \E r \in ClientOutcomes \cup { InvalidCommand } :
         IF r = InvalidCommand
         THEN \* not a dict, or empty: rejected before the client is called
              /\ op' = [ OpRecord("command", "raised", None, "WLEDCommandError",
                                  NumRefreshes(JCommandSteps(r)), 0,
                                  failed_polls, data)
                          EXCEPT !.steps = JCommandSteps(r) ]
              /\ UNCHANGED << failed_polls, available, connection_state,
                              last_error >>
         ELSE IF r.ok
         THEN /\ op' = [ OpRecord("command", "returned", r.val, "none",
                                  NumRefreshes(JCommandSteps(r)), 0,
                                  failed_polls, data)
                          EXCEPT !.steps = JCommandSteps(r) ]
              /\ UNCHANGED << failed_polls, available, connection_state,
                              last_error >>
         ELSE LET f == HandleError(failed_polls, r.err)
              IN  /\ f.failed_polls <= MaxFailedPolls
                  /\ failed_polls' = f.failed_polls
                  /\ available' = f.available
                  /\ connection_state' = f.connection_state
                  /\ last_error' = f.last_error
                  /\ op' = [ OpRecord("command", "raised", None,
                                      JCommandRaises(r.err),
                                      NumRefreshes(JCommandSteps(r)), 0,
                                      failed_polls, data)
                              EXCEPT !.steps = JCommandSteps(r) ]
    /\ UNCHANGED << coord, data, last_good, streak >>
    /\ UNCHANGED pvars
    /\ UNCHANGED rvars
    /\ UNCHANGED uvars
    /\ UNCHANGED mvars
    /\ UNCHANGED xvars

(***************************************************************************)
(* WLEDDataCoordinator (custom_components/wled)                            *)
(***************************************************************************)

\* __init__
WInit ==
    /\ failed_polls = 0
    /\ available = TRUE
    /\ connection_state = "n/a"
    /\ last_error = "none"

\* _async_update_data, both except clauses: the counter goes up by one and
\* the device is marked unavailable at the third failure in a row.
\* WPollFields without "self._available = True" on success.
WPollFields_StaysUnavailable(r, fp, avail) ==
    IF r.ok
    THEN [ failed_polls |-> 0, available |-> avail ]
    ELSE [ failed_polls |-> fp + 1,
           available |-> IF fp + 1 >= 3 /\ avail THEN FALSE ELSE avail ]

\* The coordinator's fields after the poll.
WPollFields(r, fp, avail) ==
    IF r.ok
    THEN [ failed_polls |-> 0, available |-> TRUE ]
    ELSE [ failed_polls |-> fp + 1,
           available |-> IF fp + 1 >= 3 /\ avail THEN FALSE ELSE avail ]

WPollResult(r, cache) ==
    IF r.ok
    THEN [ outcome |-> "returned", value |-> r.val ]
    ELSE IF cache # None
    THEN [ outcome |-> "returned", value |-> cache ]
    ELSE [ outcome |-> "UpdateFailed", value |-> None ]

WPoll ==
    /\ coord = "wled"
    /\ \E r \in ClientOutcomes :
         LET f   == WPollFields(r, failed_polls, available)
             res == WPollResult(r, data)
         IN  /\ f.failed_polls <= MaxFailedPolls
             /\ failed_polls' = f.failed_polls
             /\ available' = f.available
             /\ data' = FrameworkData(res, data)
             /\ op' = OpRecord("poll", res.outcome, res.value, r.err, 0, 0,
                               failed_polls, data)
             /\ last_good' = IF r.ok THEN r.val ELSE last_good
             /\ streak' = IF r.ok THEN 0 ELSE streak + 1
    /\ UNCHANGED << coord, connection_state, last_error >>
    /\ UNCHANGED pvars
    /\ UNCHANGED rvars
    /\ UNCHANGED uvars
    /\ UNCHANGED mvars
    /\ UNCHANGED xvars

\* async_send_command, statement by statement: the calls it makes when
\* client.update_state(command) ends as r.
WCommandSteps(r) ==
    IF r.ok
    THEN << "client.update_state", "async_request_refresh", "return" >>
    ELSE << "client.update_state", "raise" >>

\* async_send_command: refresh after a success, the failure re-raised.
WSendCommand ==
    /\ coord = "wled"
    /\ \E r \in ClientOutcomes :
         op' = IF r.ok
               THEN [ OpRecord("command", "returned", r.val, "none",
                               NumRefreshes(WCommandSteps(r)), 0,
                               failed_polls, data)
                      EXCEPT !.steps = WCommandSteps(r) ]
               ELSE [ OpRecord("command", "raised", None, r.err,
                               NumRefreshes(WCommandSteps(r)), 0,
                               failed_polls, data)
                      EXCEPT !.steps = WCommandSteps(r) ]
    /\ UNCHANGED << coord, failed_polls, available, connection_state,
                    last_error, data, last_good, streak >>
    /\ UNCHANGED pvars
    /\ UNCHANGED rvars
    /\ UNCHANGED uvars
    /\ UNCHANGED mvars
    /\ UNCHANGED xvars

(***************************************************************************)
(* The light entities: WLEDJSONAPILight and WLEDLight                      *)
(***************************************************************************)
LightMethods ==
    { "async_turn_on", "async_turn_off", "async_set_brightness",
      "async_set_effect" }

\* The record of one light-entity method call: err is the class the device
\* client raised ("none" when it answered or was not asked).
LightOp(m, outcome, err, steps) ==
    [ OpRecord("light", outcome, None, err, NumRefreshes(steps), 0,
               failed_polls, data)
      EXCEPT !.steps = steps, !.method = m ]

\* WLEDJSONAPILight: the except clauses around the coordinator call.  Each
\* one logs the error and falls off the end of the method.
JLightAfterRaise(error) ==
    IF IsInstance(error, "WLEDTimeoutError") THEN "returned"
    ELSE IF IsInstance(error, "WLEDNetworkError") THEN "returned"
    ELSE IF IsInstance(error, "WLEDCommandError") THEN "returned"
    ELSE IF IsInstance(error, "WLEDConnectionError") THEN "returned"
    ELSE "returned"

\* WLEDJSONAPILight.async_turn_on / async_turn_off / async_set_brightness /
\* async_set_effect: nothing is sent while the coordinator is unavailable;
\* otherwise the command goes through the coordinator's async_send_command.
JLightCommand ==
    /\ coord = "wled_jsonapi"
    /\ \E m \in LightMethods :
         IF ~available
         THEN /\ op' = LightOp(m, "returned", "none", << "return" >>)
              /\ UNCHANGED << failed_polls, available, connection_state,
                              last_error >>
         ELSE \E r \in ClientOutcomes :
                IF r.ok
                THEN /\ op' = LightOp(m, "returned", "none",
                                      << "coordinator" >> \o JCommandSteps(r)
                                         \o << "return" >>)
                     /\ UNCHANGED << failed_polls, available,
                                     connection_state, last_error >>
                ELSE LET f == HandleError(failed_polls, r.err)
                         after == JLightAfterRaise(JCommandRaises(r.err))
                     IN  /\ f.failed_polls <= MaxFailedPolls
                         /\ failed_polls' = f.failed_polls
                         /\ available' = f.available
                         /\ connection_state' = f.connection_state
                         /\ last_error' = f.last_error
                         /\ op' = LightOp(m, after, r.err,
                                          << "coordinator" >> \o JCommandSteps(r)
                                             \o << IF after = "returned"
                                                   THEN "return" ELSE "raise" >>)
    /\ UNCHANGED << coord, data, last_good, streak >>
    /\ UNCHANGED pvars
    /\ UNCHANGED rvars
    /\ UNCHANGED uvars
    /\ UNCHANGED mvars
    /\ UNCHANGED xvars

\* WLEDLight.async_turn_on / async_turn_off / async_set_brightness /
\* async_set_effect: the coordinator call is awaited outside any try block.
WLightCommand ==
    /\ coord = "wled"
    /\ \E m \in LightMethods, r \in ClientOutcomes :
         op' = IF r.ok
               THEN LightOp(m, "returned", "none",
                            << "coordinator" >> \o WCommandSteps(r)
                               \o << "return" >>)
               ELSE LightOp(m, "raised", r.err,
                            << "coordinator" >> \o WCommandSteps(r)
                               \o << "raise" >>)
    /\ UNCHANGED << coord, failed_polls, available, connection_state,
                    last_error, data, last_good, streak >>
    /\ UNCHANGED pvars
    /\ UNCHANGED rvars
    /\ UNCHANGED uvars
    /\ UNCHANGED mvars
    /\ UNCHANGED xvars

(***************************************************************************)
(* WLEDJSONAPIDataCoordinator.async_activate_playlist                      *)
(***************************************************************************)
\* The playlist ids a caller passes: a negative one, the id of the device's
\* playlist, and an id the device has no playlist for.
PlaylistArguments == { -1, 2, 3 }

\* "not isinstance(playlist_id, int) or playlist_id < 0"
InvalidPlaylistId(playlist_id) == playlist_id < 0

\* get_playlist_by_id(playlist_id) is not None
PlaylistCached(pdata, playlist_id) ==
    pdata.loaded /\ playlist_id \in pdata.playlists

\* async_activate_playlist, statement by statement: the calls it makes when
\* client.update_state({"pl": playlist_id}) ends as r.  A playlist missing
\* from the cache is logged and the command is sent all the same.
ActivatePlaylistSteps(playlist_id, r) ==
    IF InvalidPlaylistId(playlist_id)
    THEN << "raise" >>
    ELSE << "get_playlist_by_id", "async_send_command" >> \o JCommandSteps(r)
            \o IF r.ok THEN << "async_request_refresh", "return" >>
                        ELSE << "raise" >>

\* The record of one async_activate_playlist call.
PlaylistOp(playlist_id, outcome, value, err, steps) ==
    [ OpRecord("playlist", outcome, value, err, NumRefreshes(steps), 0,
               failed_polls, data)
      EXCEPT !.steps = steps, !.method = "async_activate_playlist",
             !.playlist_id = playlist_id ]

JActivatePlaylist ==
    /\ coord = "wled_jsonapi"
    /\ \E playlist_id \in PlaylistArguments, r \in ClientOutcomes :
         LET steps == ActivatePlaylistSteps(playlist_id, r)
         IN  IF InvalidPlaylistId(playlist_id)
             THEN /\ op' = PlaylistOp(playlist_id, "raised", None,
                                      "WLEDPlaylistLoadError", steps)
                  /\ UNCHANGED << failed_polls, available, connection_state,
                                  last_error >>
             ELSE IF r.ok
             THEN /\ op' = PlaylistOp(playlist_id, "returned", r.val, "none",
                                      steps)
                  /\ UNCHANGED << failed_polls, available, connection_state,
                                  last_error >>
             ELSE LET f == HandleError(failed_polls, r.err)
                  IN  /\ f.failed_polls <= MaxFailedPolls
                      /\ failed_polls' = f.failed_polls
                      /\ available' = f.available
                      /\ connection_state' = f.connection_state
                      /\ last_error' = f.last_error
                      /\ op' = PlaylistOp(playlist_id, "raised", None,
                                          "WLEDPlaylistLoadError", steps)
    /\ UNCHANGED << coord, data, last_good, streak >>
    /\ UNCHANGED pvars
    /\ UNCHANGED rvars
    /\ UNCHANGED uvars
    /\ UNCHANGED mvars
    /\ UNCHANGED xvars

(***************************************************************************)
(* The request loops of the device clients.  One request is followed from  *)
(* its first transport attempt to its return or raise.                     *)
(***************************************************************************)
\* wled/const.py
MAX_RETRIES == 5
INITIAL_RETRY_DELAY == 1
MAX_RETRY_DELAY == 30
RETRY_BACKOFF_MULTIPLIER == 2
\* wled_jsonapi/api.py, __init__: self._max_retries, self._retry_delay
SIMPLE_MAX_RETRIES == 3
ENHANCED_MAX_RETRIES == 5
SIMPLE_RETRY_DELAY == 1

Min(a, b) == IF a < b THEN a ELSE b

\* A raised exception with the message prefix it carries.
RaiseMsg(e, m) == [ ok |-> FALSE, val |-> None, err |-> e, msg |-> m ]
NoResult == [ ok |-> FALSE, val |-> None, err |-> "none", msg |-> "none" ]
WithMsg(r) == [ ok |-> r.ok, val |-> r.val, err |-> r.err, msg |-> "none" ]

(***************************************************************************)
(* WLEDAPIClient._request (custom_components/wled/api.py)                  *)
(***************************************************************************)

\* The body of the try: what one attempt raises or returns.
\* raise_for_status() raises ClientResponseError, a ClientError;
\* response.json() raises JSONDecodeError on a body that is not JSON.
WAttempt(t) ==
    IF t.kind = "timeout" THEN Raise("TimeoutError")
    ELSE IF t.kind = "network" THEN Raise("ClientError")
    ELSE IF t.status >= 400 THEN Raise("ClientResponseError")
    ELSE IF t.doc = None THEN Raise("JSONDecodeError")
    ELSE Ok(t.doc)

\* The except clause taken, by the prefix of the message it raises with on
\* the last attempt.
WExceptClause(err) ==
    IF err = "TimeoutError" THEN "Timeout connecting to"
    ELSE IF err \in {"ClientError", "ClientResponseError"}
    THEN "Connection error to"
    ELSE "Unexpected error to"

\* WLastAttempt giving up one attempt early.
WLastAttempt_OneEarly(a) == a = MAX_RETRIES - 1

\* "if attempt == retries": the failure of this attempt ends the request.
WLastAttempt(a) == a = MAX_RETRIES

\* WFinalRaise letting the underlying exception through.
WFinalRaise_Reraise(err) == RaiseMsg(err, WExceptClause(err))

\* What is raised when the last attempt failed with err.
WFinalRaise(err) == RaiseMsg("WLEDConnectionError", WExceptClause(err))

\* WNextDelay adding the multiplier in place of multiplying by it.
WNextDelay_Additive(d) == Min(d + RETRY_BACKOFF_MULTIPLIER, MAX_RETRY_DELAY)

\* retry_delay after a sleep.
WNextDelay(d) == Min(d * RETRY_BACKOFF_MULTIPLIER, MAX_RETRY_DELAY)

\* One pass through the for loop of _request(retries = MAX_RETRIES).
WRequestStep ==
    /\ client = "WLEDAPIClient"
    /\ pc = "attempt"
    /\ attempt <= MAX_RETRIES
    /\ \E t \in TransportOutcomes :
         LET r == WAttempt(t)
         IN  /\ calls' = calls + 1
             /\ trace' = Append(trace, t)
             /\ IF r.ok
                THEN /\ pc' = "returned"
                     /\ result' = WithMsg(r)
                     /\ UNCHANGED << attempt, retry_delay, delays >>
                ELSE IF WLastAttempt(attempt)
                THEN /\ pc' = "raised"
                     /\ result' = WFinalRaise(r.err)
                     /\ UNCHANGED << attempt, retry_delay, delays >>
                ELSE /\ pc' = "attempt"
                     /\ delays' = Append(delays, retry_delay)
                     /\ retry_delay' = WNextDelay(retry_delay)
                     /\ attempt' = attempt + 1
                     /\ UNCHANGED result
    /\ UNCHANGED << client >>
    /\ UNCHANGED cvars
    /\ UNCHANGED pvars
    /\ UNCHANGED uvars
    /\ UNCHANGED mvars
    /\ UNCHANGED xvars

(***************************************************************************)
(* WLEDJSONAPIClient._request_with_simple_retry (use_simple_client=True)   *)
(***************************************************************************)

\* The first except clause of the loop: the classes that are retried.
SimpleRetried(err) ==
    IsAnyInstance(err, {"WLEDConnectionError", "WLEDNetworkError",
                        "WLEDTimeoutError", "WLEDHTTPError"})

\* One pass through the for loop: sleep before every attempt but the first,
\* the attempt, and the except clauses.
SimpleRequestStep ==
    /\ client = "simple"
    /\ pc = "attempt"
    /\ attempt <= SIMPLE_MAX_RETRIES
    /\ \E t \in TransportOutcomes :
         LET r == JAttempt(t)
         IN  /\ calls' = calls + 1
             /\ trace' = Append(trace, t)
             /\ delays' = IF attempt > 0
                          THEN Append(delays, SIMPLE_RETRY_DELAY)
                          ELSE delays
             /\ IF r.ok
                THEN /\ pc' = "returned"
                     /\ result' = WithMsg(r)
                     /\ UNCHANGED attempt
                ELSE IF ~ SimpleRetried(r.err)
                THEN /\ pc' = "raised"
                     /\ result' = WithMsg(Raise("WLEDConnectionError"))
                     /\ UNCHANGED attempt
                ELSE IF attempt < SIMPLE_MAX_RETRIES
                THEN /\ pc' = "attempt"
                     /\ attempt' = attempt + 1
                     /\ UNCHANGED result
                ELSE /\ pc' = "raised"
                     /\ result' = WithMsg(r)
                     /\ UNCHANGED attempt
    /\ UNCHANGED << client, retry_delay >>
    /\ UNCHANGED cvars
    /\ UNCHANGED pvars
    /\ UNCHANGED uvars
    /\ UNCHANGED mvars
    /\ UNCHANGED xvars

(***************************************************************************)
(* WLEDJSONAPIClient._request_with_enhanced_retry (the default mode)       *)
(***************************************************************************)
\* The function holds no loop: one attempt, whose exception is re-raised
\* or wrapped.  self._max_retries (5) is not read.
EnhancedRequestStep ==
    /\ client = "enhanced"
    /\ pc = "attempt"
    /\ \E t \in TransportOutcomes :
         LET r == RequestWithEnhancedRetry(t)
         IN  /\ calls' = calls + 1
             /\ trace' = Append(trace, t)
             /\ pc' = IF r.ok THEN "returned" ELSE "raised"
             /\ result' = WithMsg(r)
    /\ UNCHANGED << client, attempt, retry_delay, delays >>
    /\ UNCHANGED cvars
    /\ UNCHANGED pvars
    /\ UNCHANGED uvars
    /\ UNCHANGED mvars
    /\ UNCHANGED xvars

(***************************************************************************)
(* The methods of the device clients: get_state, get_info, get_full_state  *)
(* and update_state.  A call is followed from its argument to what it      *)
(* returns or raises, against a device that gives every attempt of the     *)
(* call the same answer.                                                   *)
(***************************************************************************)
Absent == "absent"

\* A response body: empty or blank ("empty"), not JSON and at most 500
\* characters long ("invalid"), not JSON and longer ("invalid long"), a
\* JSON array, or a JSON object with the keys it holds (Absent for a key it
\* does not hold).
Body(json, on, bri, error, success, transition) ==
    [ json |-> json, on |-> on, bri |-> bri, error |-> error,
      success |-> success, transition |-> transition ]

NoBody == Body("none", Absent, Absent, Absent, Absent, Absent)

JsonObjects ==
    [ json : {"object"}, on : {Absent, "true", "false"},
      bri : {Absent, "127", "128"}, error : {Absent, "device message"},
      success : {Absent, "false"}, transition : {Absent, "7"} ]

Bodies ==
    JsonObjects
    \cup { Body("array", Absent, Absent, Absent, Absent, Absent),
           Body("invalid", Absent, Absent, Absent, Absent, Absent),
           Body("invalid long", Absent, Absent, Absent, Absent, Absent),
           Body("empty", Absent, Absent, Absent, Absent, Absent) }

\* The status codes of the answers.
AnswerStatuses == { 200, 401, 403, 404, 500 }

\* The answers of the device: a transport outcome, with the body of a 200.
Answers ==
    { [ kind |-> k, status |-> 0, doc |-> None, body |-> NoBody ] :
        k \in {"timeout", "network"} }
    \cup { [ kind |-> "response", status |-> 200,
             doc |-> IF b.json \in {"invalid", "invalid long", "empty"}
                     THEN None ELSE 1,
             body |-> b ] :
           b \in Bodies }
    \cup { [ kind |-> "response", status |-> st, doc |-> None, body |-> NoBody ] :
           st \in AnswerStatuses \ {200} }

\* WLEDAPIClient hands the body to aiohttp's response.json(); what that
\* makes of an empty body is not in the source, so WLEDAPIClient is not
\* followed on such an answer.
WAnswers == { t \in Answers : t.body.json # "empty" }

\* The argument of update_state: a dict with the keys it sets, None, or a
\* value that is not a mapping.
StateArgument(type, on, bri) == [ type |-> type, on |-> on, bri |-> bri ]

StateArguments ==
    { StateArgument("dict", on, bri) :
        on \in {Absent, "true"}, bri \in {Absent, "128"} }
    \cup { StateArgument("None", Absent, Absent),
           StateArgument("str", Absent, Absent) }

NoStateArgument == StateArgument("no argument", Absent, Absent)

\* "not isinstance(state, dict) or not state"
InvalidState(state) ==
    state.type # "dict" \/ (state.on = Absent /\ state.bri = Absent)

\* How a call ends: the value returned or the class raised, the number of
\* times the transport was invoked, and the fields of the command or of the
\* response body that the exception's message is built from.  No raise
\* statement of the two clients builds its message from a comparison of
\* the command with the response or from the response body.
Returned(body, n) ==
    [ ok |-> TRUE, val |-> body, err |-> "none", calls |-> n, mentions |-> {},
      response_data |-> "none" ]
Raised(e, n) ==
    [ ok |-> FALSE, val |-> NoBody, err |-> e, calls |-> n, mentions |-> {},
      response_data |-> "none" ]

\* The response_data attribute of the exception raised for the body b:
\* response_buffer[:500] on WLEDInvalidJSONError, "<empty>" on the
\* WLEDInvalidResponseError of an empty body.
ResponseData(e, b) ==
    IF e = "WLEDInvalidJSONError"
    THEN IF b.json = "invalid long" THEN "first 500 characters" ELSE "whole body"
    ELSE IF e = "WLEDInvalidResponseError" /\ b.json = "empty"
    THEN "<empty>"
    ELSE "none"

\* An exception of _request that the method re-raises as it is.
Reraised(e, n, b) == [ Raised(e, n) EXCEPT !.response_data = ResponseData(e, b) ]

\* WLEDAPIClient._request: the first attempt returns, or all MAX_RETRIES + 1
\* attempts fail and the last one raises WLEDConnectionError.
WRequest(t) ==
    LET r == WAttempt(t)
    IN  IF r.ok
        THEN [ res |-> r, calls |-> 1 ]
        ELSE [ res |-> Raise(WFinalRaise(r.err).err), calls |-> MAX_RETRIES + 1 ]

\* WLEDJSONAPIClient._request: the simple loop or the single attempt of the
\* default mode.
JRequest(mode, t) ==
    IF mode = "simple"
    THEN LET r == JAttempt(t)
         IN  IF r.ok THEN [ res |-> r, calls |-> 1 ]
             ELSE IF ~ SimpleRetried(r.err)
             THEN [ res |-> Raise("WLEDConnectionError"), calls |-> 1 ]
             ELSE [ res |-> r, calls |-> SIMPLE_MAX_RETRIES + 1 ]
    ELSE [ res |-> RequestWithEnhancedRetry(t), calls |-> 1 ]

\* _extract_essential_state_fields: the keys on, bri (ps, pl, seg) are
\* copied, every other key is dropped.
ExtractEssentialStateFields(b) ==
    Body(b.json, b.on, b.bri, Absent, Absent, Absent)

\* The value _handle_response returns for a parsed body: the essential
\* fields of a dict when there are any, the parsed body otherwise.
HandleResponseValue(b) ==
    IF b.json = "object"
    THEN LET essential_data == ExtractEssentialStateFields(b)
         IN  IF essential_data.on # Absent \/ essential_data.bri # Absent
             THEN essential_data
             ELSE b
    ELSE b

\* WLEDJSONAPIClient.update_state
JUpdateState(mode, state, t) ==
    IF InvalidState(state)
    THEN Raised("WLEDInvalidCommandError", 0)
    ELSE LET q == JRequest(mode, t)
         IN  IF q.res.ok
             THEN IF HandleResponseValue(t.body).json # "object"
                  THEN Raised("WLEDInvalidStateError", q.calls)
                  ELSE Returned(HandleResponseValue(t.body), q.calls)
             ELSE IF IsAnyInstance(q.res.err, {"WLEDConnectionError",
                                               "WLEDInvalidResponseError",
                                               "WLEDCommandError"})
             THEN Reraised(q.res.err, q.calls, t.body)
             ELSE Raised("WLEDCommandError", q.calls)

\* WLEDJSONAPIClient.get_state, get_info, get_full_state
JGet(mode, t) ==
    LET q == JRequest(mode, t)
    IN  IF q.res.ok
        THEN IF HandleResponseValue(t.body).json # "object"
             THEN Raised("WLEDInvalidStateError", q.calls)
             ELSE Returned(HandleResponseValue(t.body), q.calls)
        ELSE IF IsAnyInstance(q.res.err, {"WLEDConnectionError",
                                          "WLEDInvalidResponseError"})
        THEN Reraised(q.res.err, q.calls, t.body)
        ELSE Raised("WLEDConnectionError", q.calls)

\* WLEDAPIClient.update_state: the argument is posted as it is; every
\* exception is raised again as WLEDCommandError.
WUpdateState(state, t) ==
    LET q == WRequest(t)
    IN  IF q.res.ok
        THEN IF t.body.json # "object"
             THEN Raised("WLEDCommandError", q.calls)
             ELSE Returned(t.body, q.calls)
        ELSE Raised("WLEDCommandError", q.calls)

\* WLEDAPIClient.get_state, get_info, get_full_state: every exception is
\* logged and re-raised.
WGet(t) ==
    LET q == WRequest(t)
    IN  IF q.res.ok
        THEN IF t.body.json # "object"
             THEN Raised("WLEDInvalidResponseError", q.calls)
             ELSE Returned(t.body, q.calls)
        ELSE Raised(q.res.err, q.calls)

GetMethods == { "get_state", "get_info", "get_full_state" }

Call(method, cl, state, t, res) ==
    [ method |-> method, client |-> cl, state |-> state, answer |-> t,
      result |-> res ]

NoCall ==
    Call("none", "none", NoStateArgument,
         [ kind |-> "none", status |-> 0, doc |-> None, body |-> NoBody ],
         Raised("none", 0))

JCallUpdateState ==
    /\ call = NoCall
    /\ \E mode \in {"enhanced", "simple"}, state \in StateArguments, t \in Answers :
         call' = Call("update_state", mode, state, t, JUpdateState(mode, state, t))
    /\ UNCHANGED cvars
    /\ UNCHANGED pvars
    /\ UNCHANGED rvars
    /\ UNCHANGED mvars
    /\ UNCHANGED xvars

JCallGet ==
    /\ call = NoCall
    /\ \E m \in GetMethods, mode \in {"enhanced", "simple"}, t \in Answers :
         call' = Call(m, mode, NoStateArgument, t, JGet(mode, t))
    /\ UNCHANGED cvars
    /\ UNCHANGED pvars
    /\ UNCHANGED rvars
    /\ UNCHANGED mvars
    /\ UNCHANGED xvars

WCallUpdateState ==
    /\ call = NoCall
    /\ \E state \in StateArguments, t \in WAnswers :
         call' = Call("update_state", "WLEDAPIClient", state, t,
                      WUpdateState(state, t))
    /\ UNCHANGED cvars
    /\ UNCHANGED pvars
    /\ UNCHANGED rvars
    /\ UNCHANGED mvars
    /\ UNCHANGED xvars

WCallGet ==
    /\ call = NoCall
    /\ \E m \in GetMethods, t \in WAnswers :
         call' = Call(m, "WLEDAPIClient", NoStateArgument, t, WGet(t))
    /\ UNCHANGED cvars
    /\ UNCHANGED pvars
    /\ UNCHANGED rvars
    /\ UNCHANGED mvars
    /\ UNCHANGED xvars

\* The caller has taken the result: the client is ready for the next call.
CallDone ==
    /\ call # NoCall
    /\ call' = NoCall
    /\ UNCHANGED cvars
    /\ UNCHANGED pvars
    /\ UNCHANGED rvars
    /\ UNCHANGED mvars
    /\ UNCHANGED xvars

(***************************************************************************)
(* WLEDPresetsData.from_dict (wled_jsonapi/models.py)                      *)
(***************************************************************************)
\* The keys of a presets document: two numeric ones and one that is not.
DocKeys == { "1", "2", "x" }

\* key.isdigit()
IsDigit(key) == key \in { "1", "2" }

\* The values of a presets document: an object without a "playlist" key,
\* an object with one, a string without "playlist" in it, a string with
\* "playlist" in it, and a number.
ValueKinds == { "preset", "playlist", "text", "text playlist", "number" }

\* The orders in which a document lists some of the keys.
KeyOrders ==
    { ks \in UNION { [ 1..n -> DocKeys ] : n \in 0..Cardinality(DocKeys) } :
        \A i, j \in 1..Len(ks) : ks[i] = ks[j] => i = j }

\* The presets documents: the keys in the order data.items() yields them,
\* each with its value.
PresetsDocuments ==
    UNION { { [ keys |-> ks, values |-> vs ] :
                vs \in [ 1..Len(ks) -> ValueKinds ] } : ks \in KeyOrders }

Parsed(presets, playlists) ==
    [ ok |-> TRUE, presets |-> presets, playlists |-> playlists, err |-> "none" ]
ParseRaised(e) ==
    [ ok |-> FALSE, presets |-> {}, playlists |-> {}, err |-> e ]

\* The loop of from_dict from entry i on.  '"playlist" in value' is a key
\* test on an object, a substring test on a string and a TypeError on a
\* number; WLEDPlaylist.from_dict and WLEDPreset.from_dict call value.get,
\* which a string does not have, and the except clauses name ValueError
\* and KeyError only.
RECURSIVE FromDictLoop(_, _, _, _)
FromDictLoop(document, i, presets, playlists) ==
    IF i > Len(document.keys)
    THEN Parsed(presets, playlists)
    ELSE LET key == document.keys[i]
             value == document.values[i]
         IN  IF ~ IsDigit(key)
             THEN FromDictLoop(document, i + 1, presets, playlists)
             ELSE IF value = "number"
             THEN ParseRaised("TypeError")
             ELSE IF value \in { "playlist", "text playlist" }
             THEN IF value = "playlist"
                  THEN FromDictLoop(document, i + 1, presets, playlists \cup {key})
                  ELSE ParseRaised("AttributeError")
             ELSE IF value = "preset"
                  THEN FromDictLoop(document, i + 1, presets \cup {key}, playlists)
                  ELSE ParseRaised("AttributeError")

\* WLEDPresetsData.from_dict(data), data being document
FromDict(document) == FromDictLoop(document, 1, {}, {})

NoParse ==
    [ called |-> FALSE, data |-> [ keys |-> << >>, values |-> << >> ],
      result |-> Parsed({}, {}) ]

\* One call of from_dict with a document.
ParsePresets ==
    /\ ~ parse.called
    /\ \E d \in PresetsDocuments :
         parse' = [ called |-> TRUE, data |-> d, result |-> FromDict(d) ]
    /\ UNCHANGED << flight, presets_log >>
    /\ UNCHANGED xvars
    /\ UNCHANGED cvars
    /\ UNCHANGED pvars
    /\ UNCHANGED rvars
    /\ UNCHANGED uvars

ParseDone ==
    /\ parse.called
    /\ parse' = NoParse
    /\ UNCHANGED << flight, presets_log >>
    /\ UNCHANGED xvars
    /\ UNCHANGED cvars
    /\ UNCHANGED pvars
    /\ UNCHANGED rvars
    /\ UNCHANGED uvars

(***************************************************************************)
(* Requests in flight.  The poll runs as one task, a command (a service    *)
(* call) as another; neither coordinator nor client takes a lock, so the   *)
(* tasks interleave at every await.                                        *)
(***************************************************************************)
Tasks == { "poll", "command" }

\* A task outside any request.
TaskIdle == [ pc |-> "idle", request |-> "none", attempt |-> 0 ]
NoFlight == [ t \in Tasks |-> TaskIdle ]

\* ClientSession() of WLEDAPIClient: the connector's default limit.
DEFAULT_CONNECTOR_LIMIT == 100

\* The connections the session's connector hands out at a time:
\* "limit": 1 in the _session_config of WLEDJSONAPIClient, the default of
\* ClientSession() in WLEDAPIClient.
ConnectorLimit(cl) ==
    IF cl \in { "simple", "enhanced" } THEN 1 ELSE DEFAULT_CONNECTOR_LIMIT

\* The attempts one request makes at most.
MaxAttempts(cl) ==
    IF cl = "WLEDAPIClient" THEN MAX_RETRIES + 1
    ELSE IF cl = "simple" THEN SIMPLE_MAX_RETRIES + 1
    ELSE 1

\* The requests that hold a connection.
InFlight(f) == { t \in Tasks : f[t].pc = "in flight" }

\* The task calls the client: get_full_state() from the poll,
\* update_state(command) from a command.
FlightStart ==
    \E t \in Tasks :
       /\ flight[t].pc = "idle"
       /\ flight' = [ flight EXCEPT ![t] =
                         [ pc |-> "connecting",
                           request |-> IF t = "poll" THEN "get_full_state"
                                                    ELSE "update_state",
                           attempt |-> 1 ] ]
       /\ UNCHANGED << cvars, pvars, rvars, uvars, parse, presets_log, xvars >>

\* session.request(): the connector hands out a connection when it has one.
FlightConnect ==
    \E t \in Tasks :
       /\ flight[t].pc = "connecting"
       /\ Cardinality(InFlight(flight)) < ConnectorLimit(client)
       /\ flight' = [ flight EXCEPT ![t].pc = "in flight" ]
       /\ UNCHANGED << cvars, pvars, rvars, uvars, parse, presets_log, xvars >>

\* The attempt ends and the connection is released.  After a failure the
\* loop sleeps and tries again while it has attempts left; after the state
\* was fetched, the poll of WLEDJSONAPIDataCoordinator may go on to
\* get_essential_presets().
FlightAnswer ==
    \E t \in Tasks, ok \in BOOLEAN, presets_due \in BOOLEAN :
       /\ flight[t].pc = "in flight"
       /\ flight' = [ flight EXCEPT ![t] =
             IF ~ ok /\ flight[t].attempt < MaxAttempts(client)
             THEN [ flight[t] EXCEPT !.pc = "sleeping" ]
             ELSE IF /\ ok /\ presets_due
                     /\ flight[t].request = "get_full_state"
                     /\ client # "WLEDAPIClient"
             THEN [ pc |-> "connecting", request |-> "get_essential_presets",
                    attempt |-> 1 ]
             ELSE TaskIdle ]
       /\ UNCHANGED << cvars, pvars, rvars, uvars, parse, presets_log, xvars >>

\* asyncio.sleep() is over: the next attempt.
FlightRetry ==
    \E t \in Tasks :
       /\ flight[t].pc = "sleeping"
       /\ flight' = [ flight EXCEPT ![t].pc = "connecting",
                                    ![t].attempt = @ + 1 ]
       /\ UNCHANGED << cvars, pvars, rvars, uvars, parse, presets_log, xvars >>

(***************************************************************************)
(* set_effect of both clients, async_set_effect of both coordinators       *)
(***************************************************************************)
\* An optional argument left at its default, None (0 is a value).
Unset == -1

\* The callables that build the effect command.
EffectMethods ==
    { "WLEDJSONAPIClient.set_effect",
      "WLEDJSONAPIDataCoordinator.async_set_effect",
      "WLEDAPIClient.set_effect",
      "WLEDDataCoordinator.async_set_effect" }

EffectIds == { 0, 5 }
SpeedArguments == { Unset, 0, 128 }
IntensityArguments == { Unset, 0, 200 }
PaletteArguments == { Unset, 0, 3 }

\* The segment dict: "fx", and one key per argument that "is not None".
EffectSegment(fx, sx, ix, pal) ==
    [ k \in {"fx"} \cup (IF sx # Unset THEN {"sx"} ELSE {})
                   \cup (IF ix # Unset THEN {"ix"} ELSE {})
                   \cup (IF pal # Unset THEN {"pal"} ELSE {}) |->
        IF k = "fx" THEN fx
        ELSE IF k = "sx" THEN sx
        ELSE IF k = "ix" THEN ix
        ELSE pal ]

\* SetEffectCommand with "if speed:" in place of "if speed is not None:".
SetEffectCommand_Truthy(fx, sx, ix, pal) ==
    [ seg |-> << EffectSegment(fx, IF sx = 0 THEN Unset ELSE sx, ix, pal) >> ]

\* The command the four methods build: {"seg": [{"fx": effect, ...}]}.
SetEffectCommand(fx, sx, ix, pal) ==
    [ seg |-> << EffectSegment(fx, sx, ix, pal) >> ]

NoEffectCall ==
    [ called |-> FALSE, method |-> "none", effect |-> 0, speed |-> Unset,
      intensity |-> Unset, palette |-> Unset,
      command |-> SetEffectCommand(0, Unset, Unset, Unset) ]

\* One call: the command is handed to update_state / async_send_command.
SetEffect ==
    /\ ~ effect_call.called
    /\ \E m \in EffectMethods, fx \in EffectIds, sx \in SpeedArguments,
          ix \in IntensityArguments, pal \in PaletteArguments :
         effect_call' = [ called |-> TRUE, method |-> m, effect |-> fx,
                          speed |-> sx, intensity |-> ix, palette |-> pal,
                          command |-> SetEffectCommand(fx, sx, ix, pal) ]
    /\ UNCHANGED << cvars, pvars, rvars, uvars, mvars >>
    /\ UNCHANGED << probe, session, overlap >>

SetEffectDone ==
    /\ effect_call.called
    /\ effect_call' = NoEffectCall
    /\ UNCHANGED << cvars, pvars, rvars, uvars, mvars >>
    /\ UNCHANGED << probe, session, overlap >>

(***************************************************************************)
(* test_connection of both clients                                         *)
(***************************************************************************)
\* What get_info() ends with: its outcome for an answer of the device, and,
\* get_info() taken as given, a return or an exception of any class.
GetInfoOutcomes(cl) ==
    ( IF cl = "WLEDAPIClient"
      THEN { WGet(t) : t \in WAnswers }
      ELSE { JGet(cl, t) : t \in Answers } )
    \cup { Returned(Body("object", Absent, Absent, Absent, Absent, Absent), 1) }
    \cup { Raised(e, n) : e \in ErrorClasses \cup
                              { "WLEDNetworkError", "WLEDInvalidJSONError",
                                "WLEDInvalidStateError" },
                          n \in 1..2 }

\* TestConnection without the last clause, "except Exception".
TestConnection_NoCatchAll(cl, r) ==
    IF r.ok THEN "True"
    ELSE IF IsAnyInstance(r.err, {"WLEDTimeoutError", "WLEDNetworkError",
                                  "WLEDAuthenticationError",
                                  "WLEDConnectionError"})
    THEN "False"
    ELSE "raised"

\* test_connection, r being the outcome of get_info(): WLEDJSONAPIClient
\* goes through its except clauses one by one, WLEDAPIClient has the single
\* clause "except Exception".
TestConnection(cl, r) ==
    IF r.ok THEN "True"
    ELSE IF cl = "WLEDAPIClient" THEN "False"
    ELSE IF IsInstance(r.err, "WLEDTimeoutError") THEN "False"
    ELSE IF IsInstance(r.err, "WLEDNetworkError") THEN "False"
    ELSE IF IsInstance(r.err, "WLEDAuthenticationError") THEN "False"
    ELSE IF IsInstance(r.err, "WLEDConnectionError") THEN "False"
    ELSE "False"

NoProbe ==
    [ called |-> FALSE, client |-> "none", info |-> Raised("none", 0),
      outcome |-> "none" ]

CallTestConnection ==
    /\ ~ probe.called
    /\ \E cl \in {"WLEDAPIClient", "simple", "enhanced"} :
         \E r \in GetInfoOutcomes(cl) :
            probe' = [ called |-> TRUE, client |-> cl, info |-> r,
                       outcome |-> TestConnection(cl, r) ]
    /\ UNCHANGED << cvars, pvars, rvars, uvars, mvars >>
    /\ UNCHANGED << effect_call, session, overlap >>

TestConnectionDone ==
    /\ probe.called
    /\ probe' = NoProbe
    /\ UNCHANGED << cvars, pvars, rvars, uvars, mvars >>
    /\ UNCHANGED << effect_call, session, overlap >>

(***************************************************************************)
(* The HTTP session of a client: __init__, _ensure_session, close,         *)
(* __aexit__, and the caller closing the session it supplied.              *)
(***************************************************************************)
SessionClients == { "WLEDAPIClient", "simple", "enhanced" }

NoSession ==
    [ client |-> "none", supplied |-> FALSE, close_session |-> FALSE,
      session_config |-> FALSE, held |-> "none",
      supplied_state |-> "none", own_state |-> "none",
      closed_by_client |-> FALSE,
      requests |-> 0, closes |-> 0, exits |-> 0 ]

\* __init__: a supplied session is kept and _close_session is False;
\* without one, WLEDAPIClient makes its session at once, WLEDJSONAPIClient
\* keeps None and a non-empty _session_config.
Constructed(cl, supplied) ==
    [ NoSession EXCEPT
        !.client = cl,
        !.supplied = supplied,
        !.close_session = ~ supplied,
        !.session_config = (cl # "WLEDAPIClient" /\ ~ supplied),
        !.held = IF supplied THEN "supplied"
                 ELSE IF cl = "WLEDAPIClient" THEN "own" ELSE "none",
        !.supplied_state = IF supplied THEN "open" ELSE "none",
        !.own_state = IF ~ supplied /\ cl = "WLEDAPIClient"
                      THEN "open" ELSE "none" ]

\* self._session.closed
HeldClosed(s) ==
    \/ s.held = "supplied" /\ s.supplied_state = "closed"
    \/ s.held = "own" /\ s.own_state = "closed"

\* _ensure_session of WLEDJSONAPIClient; WLEDAPIClient uses self._session
\* as it is.
EnsureSession(s) ==
    IF /\ s.client # "WLEDAPIClient"
       /\ (s.held = "none" \/ HeldClosed(s))
       /\ s.session_config
    THEN [ s EXCEPT !.held = "own", !.own_state = "open" ]
    ELSE s

\* await self._session.close()
CloseHeld(s) ==
    IF s.held = "supplied"
    THEN [ s EXCEPT !.supplied_state = "closed", !.closed_by_client = TRUE ]
    ELSE [ s EXCEPT !.own_state = "closed" ]

\* A client that closes whatever session it holds.
ClosesSession_Always(close_session, held) ==
    held # "none"

\* "if self._close_session and self._session"
ClosesSession(close_session, held) ==
    close_session /\ held # "none"

\* close()
ClientClose(s) ==
    IF ClosesSession(s.close_session, s.held) THEN CloseHeld(s) ELSE s

\* __aexit__: WLEDAPIClient calls close(); WLEDJSONAPIClient closes the
\* session only when it is not closed already.
ClientExit(s) ==
    IF s.client = "WLEDAPIClient" THEN ClientClose(s)
    ELSE IF ClosesSession(s.close_session, s.held) /\ ~ HeldClosed(s)
    THEN CloseHeld(s)
    ELSE s

SessionUnchanged ==
    /\ UNCHANGED << cvars, pvars, rvars, uvars, mvars >>
    /\ UNCHANGED << effect_call, probe, overlap >>

SessionConstruct ==
    /\ session.client = "none"
    /\ \E cl \in SessionClients, supplied \in BOOLEAN :
         session' = Constructed(cl, supplied)
    /\ SessionUnchanged

SessionRequest ==
    /\ session.client # "none"
    /\ session.requests < MaxSessionCalls
    /\ session' = [ EnsureSession(session) EXCEPT
                        !.requests = session.requests + 1 ]
    /\ SessionUnchanged

SessionClose ==
    /\ session.client # "none"
    /\ session.closes < MaxSessionCalls
    /\ session' = [ ClientClose(session) EXCEPT
                        !.closes = session.closes + 1 ]
    /\ SessionUnchanged

SessionExit ==
    /\ session.client # "none"
    /\ session.exits < MaxSessionCalls
    /\ session' = [ ClientExit(session) EXCEPT
                        !.exits = session.exits + 1 ]
    /\ SessionUnchanged

\* The caller closes the session it supplied.
SessionOwnerCloses ==
    /\ session.supplied
    /\ session.supplied_state = "open"
    /\ session' = [ session EXCEPT !.supplied_state = "closed" ]
    /\ SessionUnchanged

(***************************************************************************)
(* A poll (_async_update_data) and a command (async_send_command) of one   *)
(* WLEDJSONAPIDataCoordinator on the event loop together: each runs from   *)
(* one await to the next without interruption, and the other may run       *)
(* while it is suspended.  The steps below change the coordinator's own   *)
(* fields, its data and its presets; op, last_good and streak, which       *)
(* record single operations, stay as they are.                              *)
(***************************************************************************)
\* The four fields of the coordinator, as a record.
FieldsOf(fp, avail, state, lasterr) ==
    [ available |-> avail, failed_polls |-> fp,
      connection_state |-> state, last_error |-> lasterr ]

NoOverlap ==
    [ poll |-> "idle", poll_r |-> Raise("none"), poll_fp |-> 0,
      command |-> "idle", command_r |-> Raise("none"), command_fp |-> 0,
      start |-> FieldsOf(0, TRUE, "unknown", "none"),
      overlapped |-> FALSE ]

PollSuspended == overlap.poll \in { "get_full_state", "presets" }
CommandSuspended == overlap.command \in { "update_state", "async_request_refresh" }

\* A handler working with the counter it saw before its await.
CounterRead_BeforeAwait(at_call, at_handler) ==
    at_call

\* "self._failed_polls += 1" in _handle_error reads the counter when the
\* handler runs, after the await, not when the operation was called.
CounterRead(at_call, at_handler) ==
    at_handler

\* The fields after a whole poll whose get_full_state() ended as r.
PollEffect(f, r) ==
    LET g == JPollFields(r, f.failed_polls, f.available, f.last_error)
    IN  FieldsOf(g.failed_polls, g.available, g.connection_state, g.last_error)

\* The fields after a whole command whose update_state() ended as r.
CommandEffect(f, r) ==
    IF r = InvalidCommand \/ r.ok
    THEN f
    ELSE LET g == HandleError(f.failed_polls, r.err)
         IN  FieldsOf(g.failed_polls, g.available, g.connection_state,
                      g.last_error)

OverlapUnchanged ==
    /\ UNCHANGED << coord, rvars, uvars, mvars >>
    /\ UNCHANGED << effect_call, probe, session >>

\* Both are over: the next pair starts from the fields as they are now.
OverlapReset ==
    /\ overlap.poll = "done" /\ overlap.command = "done"
    /\ overlap' = [ NoOverlap EXCEPT
                       !.start = FieldsOf(failed_polls, available,
                                          connection_state, last_error) ]
    /\ UNCHANGED << cvars, pvars >>
    /\ OverlapUnchanged

\* _async_update_data up to "await self.client.get_full_state()".
OverlapPollCall ==
    /\ overlap.poll = "idle"
    /\ overlap' = [ overlap EXCEPT
                       !.poll = "get_full_state",
                       !.poll_fp = failed_polls,
                       !.overlapped = @ \/ CommandSuspended ]
    /\ UNCHANGED << cvars, pvars >>
    /\ OverlapUnchanged

\* get_full_state() ends: on an exception the except clause runs to its
\* end; on a return the poll goes on to
\* "await self._async_update_presets_if_needed()".
OverlapPollGot ==
    /\ overlap.poll = "get_full_state"
    /\ \E r \in ClientOutcomes :
         IF r.ok
         THEN /\ overlap' = [ overlap EXCEPT !.poll = "presets", !.poll_r = r ]
              /\ UNCHANGED << cvars, pvars >>
         ELSE LET f   == JPollFields(r, CounterRead(overlap.poll_fp, failed_polls),
                                     available, last_error)
                  res == JPollResult(r, data)
              IN  /\ f.failed_polls <= MaxFailedPolls
                  /\ failed_polls' = f.failed_polls
                  /\ available' = f.available
                  /\ connection_state' = f.connection_state
                  /\ last_error' = f.last_error
                  /\ data' = FrameworkData(res, data)
                  /\ overlap' = [ overlap EXCEPT !.poll = "done", !.poll_r = r ]
                  /\ UNCHANGED << op, last_good, streak, pvars >>
    /\ OverlapUnchanged

\* The presets refresh ends, and the poll runs to its return.
OverlapPollPresets ==
    /\ overlap.poll = "presets"
    /\ \E po \in PresetsOutcomes :
         LET r   == overlap.poll_r
             f   == JPollFields(r, CounterRead(overlap.poll_fp, failed_polls),
                                available, last_error)
             res == JPollResult(r, data)
             pr  == PresetsRefresh(po, now, presets_data, presets_last_updated,
                                   presets_failed_updates)
         IN  /\ pr.failed <= MaxPresetsFailed
             /\ UNCHANGED now
             /\ presets_data' = pr.data
             /\ presets_last_updated' = pr.last_updated
             /\ presets_failed_updates' = pr.failed
             /\ failed_polls' = f.failed_polls
             /\ available' = f.available
             /\ connection_state' = f.connection_state
             /\ last_error' = f.last_error
             /\ data' = FrameworkData(res, data)
             /\ overlap' = [ overlap EXCEPT !.poll = "done" ]
             /\ UNCHANGED << op, last_good, streak >>
    /\ OverlapUnchanged

\* async_send_command up to "await self.client.update_state(command)"; a
\* command that is not a non-empty dict is rejected before any await.
OverlapCommandCall ==
    /\ overlap.command = "idle"
    /\ \E valid \in BOOLEAN :
         overlap' = [ overlap EXCEPT
                        !.command = IF valid THEN "update_state" ELSE "done",
                        !.command_r = IF valid THEN @ ELSE InvalidCommand,
                        !.command_fp = failed_polls,
                        !.overlapped = @ \/ (valid /\ PollSuspended) ]
    /\ UNCHANGED << cvars, pvars >>
    /\ OverlapUnchanged

\* update_state() ends: on an exception _handle_error runs and the error
\* is re-raised; on a return the command goes on to
\* "await self.async_request_refresh()".
OverlapCommandGot ==
    /\ overlap.command = "update_state"
    /\ \E r \in ClientOutcomes :
         IF r.ok
         THEN /\ overlap' = [ overlap EXCEPT
                                !.command = "async_request_refresh",
                                !.command_r = r ]
              /\ UNCHANGED << cvars, pvars >>
         ELSE LET f == HandleError(CounterRead(overlap.command_fp, failed_polls),
                                   r.err)
              IN  /\ f.failed_polls <= MaxFailedPolls
                  /\ failed_polls' = f.failed_polls
                  /\ available' = f.available
                  /\ connection_state' = f.connection_state
                  /\ last_error' = f.last_error
                  /\ overlap' = [ overlap EXCEPT
                                    !.command = "done", !.command_r = r ]
                  /\ UNCHANGED << op, data, last_good, streak, pvars >>
    /\ OverlapUnchanged

\* async_request_refresh() ends, and the command returns.
OverlapCommandRefreshed ==
    /\ overlap.command = "async_request_refresh"
    /\ overlap' = [ overlap EXCEPT !.command = "done" ]
    /\ UNCHANGED << cvars, pvars >>
    /\ OverlapUnchanged

(***************************************************************************)
(* The clock: an hour passes.                                              *)
(***************************************************************************)
Tick ==
    /\ now < MaxNow
    /\ now' = now + 1
    /\ UNCHANGED << presets_data, presets_last_updated, presets_failed_updates >>
    /\ UNCHANGED cvars
    /\ UNCHANGED rvars
    /\ UNCHANGED uvars
    /\ UNCHANGED mvars
    /\ UNCHANGED xvars

(***************************************************************************)
(* Specifications                                                          *)
(***************************************************************************)
CoordIdle ==
    /\ data = None
    /\ streak = 0
    /\ op = OpRecord("init", "none", None, "none", 0, 0, 0, None)
    /\ last_good = None
    /\ now = 1
    /\ presets_data = NoPresetsData
    /\ presets_last_updated = None
    /\ presets_failed_updates = 0

RequestIdle ==
    /\ pc = "attempt"
    /\ attempt = 0
    /\ calls = 0
    /\ trace = << >>
    /\ result = NoResult
    /\ retry_delay = INITIAL_RETRY_DELAY
    /\ delays = << >>

\* The coordinators: a new coordinator of either class, then polls and
\* commands in any order.
Init ==
    /\ coord \in {"wled_jsonapi", "wled"}
    /\ IF coord = "wled_jsonapi" THEN JInit ELSE WInit
    /\ CoordIdle
    /\ client = "enhanced"
    /\ RequestIdle
    /\ call = NoCall
    /\ parse = NoParse
    /\ flight = NoFlight
    /\ presets_log = NoRefresh
    /\ effect_call = NoEffectCall
    /\ probe = NoProbe
    /\ session = NoSession
    /\ overlap = NoOverlap

Next ==
    \/ JPoll
    \/ JPollDevice
    \/ JSendCommand
    \/ WPoll
    \/ WSendCommand
    \/ Tick

Spec == Init /\ [][Next]_vars

\* The clients: one request of a client of either kind.
InitRequest ==
    /\ coord = "wled_jsonapi"
    /\ JInit
    /\ CoordIdle
    /\ client \in {"WLEDAPIClient", "simple", "enhanced"}
    /\ RequestIdle
    /\ call = NoCall
    /\ parse = NoParse
    /\ flight = NoFlight
    /\ presets_log = NoRefresh
    /\ effect_call = NoEffectCall
    /\ probe = NoProbe
    /\ session = NoSession
    /\ overlap = NoOverlap

NextRequest ==
    \/ WRequestStep
    \/ SimpleRequestStep
    \/ EnhancedRequestStep

SpecRequest == InitRequest /\ [][NextRequest]_vars

\* The light entities: entity commands, coordinator commands and polls in
\* any order.
NextLight ==
    \/ JPoll
    \/ JSendCommand
    \/ JLightCommand
    \/ JActivatePlaylist
    \/ WPoll
    \/ WSendCommand
    \/ WLightCommand

SpecLight == Init /\ [][NextLight]_vars

\* The client methods: calls of either client, one after the other.
InitUpdate ==
    /\ coord = "wled_jsonapi"
    /\ JInit
    /\ CoordIdle
    /\ client = "enhanced"
    /\ RequestIdle
    /\ call = NoCall
    /\ parse = NoParse
    /\ flight = NoFlight
    /\ presets_log = NoRefresh
    /\ effect_call = NoEffectCall
    /\ probe = NoProbe
    /\ session = NoSession
    /\ overlap = NoOverlap

NextUpdate ==
    \/ JCallUpdateState
    \/ JCallGet
    \/ WCallUpdateState
    \/ WCallGet
    \/ CallDone

SpecUpdate == InitUpdate /\ [][NextUpdate]_vars

\* The parser of presets documents: calls of from_dict, one after the other.
InitParse == InitUpdate

NextParse ==
    \/ ParsePresets
    \/ ParseDone

SpecParse == InitParse /\ [][NextParse]_vars

\* The poll task and a command task on one client of either kind.
InitFlight == InitRequest

NextFlight ==
    \/ FlightStart
    \/ FlightConnect
    \/ FlightAnswer
    \/ FlightRetry

SpecFlight == InitFlight /\ [][NextFlight]_vars

\* The presets refresh of WLEDJSONAPIDataCoordinator, call after call,
\* while the hours pass.
InitPresets == InitUpdate

NextPresets ==
    \/ UpdatePresetsIfNeeded
    \/ Tick

SpecPresets == InitPresets /\ [][NextPresets]_vars

\* The effect command: calls of the four methods, one after the other.
InitEffect == InitUpdate

NextEffect ==
    \/ SetEffect
    \/ SetEffectDone

SpecEffect == InitEffect /\ [][NextEffect]_vars

\* test_connection: calls of either client, one after the other.
InitProbe == InitUpdate

NextProbe ==
    \/ CallTestConnection
    \/ TestConnectionDone

SpecProbe == InitProbe /\ [][NextProbe]_vars

\* The session of one client object, from its construction on.
InitSession == InitUpdate

NextSession ==
    \/ SessionConstruct
    \/ SessionRequest
    \/ SessionClose
    \/ SessionExit
    \/ SessionOwnerCloses

SpecSession == InitSession /\ [][NextSession]_vars

\* A poll and a command of one WLEDJSONAPIDataCoordinator, pair after pair.
InitOverlap == InitUpdate

NextOverlap ==
    \/ OverlapPollCall
    \/ OverlapPollGot
    \/ OverlapPollPresets
    \/ OverlapCommandCall
    \/ OverlapCommandGot
    \/ OverlapCommandRefreshed
    \/ OverlapReset

SpecOverlap == InitOverlap /\ [][NextOverlap]_vars

\* WLEDJSONAPIDataCoordinator with its light entity: polls, commands sent
\* through async_send_command directly, and light-entity commands.
InitJLight == InitUpdate

NextJLight ==
    \/ JPoll
    \/ JSendCommand
    \/ JLightCommand

SpecJLight == InitJLight /\ [][NextJLight]_vars

(***************************************************************************)
(* Properties of the coordinators (specification Spec)                     *)
(***************************************************************************)
J == coord = "wled_jsonapi"

PollSucceeded == op.kind = "poll" /\ op.err = "none"
PollFailed == op.kind = "poll" /\ op.err # "none"

\* The failures that add one to the counter of the coordinator at hand.
CountableHere(err) ==
    IF J THEN Countable(err)
    ELSE WPollFields(Raise(err), 0, TRUE).failed_polls = 1

\* C1: in both coordinators, once a poll has succeeded the cache is never
\* null again and holds the document of the most recent successful poll,
\* whatever polls failed and whatever commands succeeded or failed since.
C1_CacheKeepsLastSuccessfulPoll ==
    last_good # None => (data # None /\ data = last_good)

\* A poll that raised UpdateFailed, after an earlier successful poll, with
\* the cache still holding that poll's document.
C1_Witness ==
    /\ PollFailed
    /\ op.outcome = "UpdateFailed"
    /\ last_good # None
    /\ data = last_good

\* C2: with a cached state, every countable poll failure returns the cached
\* state; after 3 of them in a row the coordinator is unavailable; and a
\* poll that then succeeds leaves it available, connected (wled_jsonapi)
\* and with the failure counter at 0.
C2_ThreeFailuresThenRecovery ==
    /\ (PollFailed /\ CountableHere(op.err) /\ op.data0 # None)
          => (op.outcome = "returned" /\ op.value = op.data0 /\ data = op.data0)
    /\ (data # None /\ streak >= MAX_FAILED_POLLS) => ~ available
    /\ PollSucceeded
          => /\ available
             /\ failed_polls = 0
             /\ J => connection_state = "connected"

\* The successful poll that follows 3 countable poll failures in a row on a
\* coordinator that held a cached state.
C2_Witness ==
    /\ PollSucceeded
    /\ op.streak0 >= MAX_FAILED_POLLS
    /\ op.data0 # None
    /\ available
    /\ failed_polls = 0

\* C3: in WLEDJSONAPIDataCoordinator, with a cached state, one or two
\* countable poll failures in a row leave available true: it becomes false
\* only once the failure counter has reached 3.
C3_AvailableUntilThreeFailures ==
    (J /\ PollFailed /\ op.data0 # None /\ streak \in 1..(MAX_FAILED_POLLS - 1)
       /\ failed_polls < MAX_FAILED_POLLS)
      => available

\* C4: in WLEDJSONAPIDataCoordinator, at every point including before the
\* first poll, available is true exactly when connection_state is
\* "connected".
C4_AvailableIffConnected ==
    J => (available <=> connection_state = "connected")

\* C5: in both coordinators, a poll that fails while the cache is null
\* raises UpdateFailed to the framework, whatever the class of the failure,
\* and the cache stays null.
C5_FailureWithoutCacheRaises ==
    (PollFailed /\ op.data0 = None)
      => (op.outcome = "UpdateFailed" /\ data = None)

\* A first poll that timed out.
C5_Witness ==
    /\ PollFailed
    /\ op.err = "WLEDTimeoutError"
    /\ op.data0 = None
    /\ op.outcome = "UpdateFailed"

\* C6: a poll of WLEDJSONAPIDataCoordinator that the device answers with
\* HTTP 401 leaves the failure counter unchanged, ends in state "error" and
\* raises UpdateFailed, cached state or not.
C6_Http401NotCounted ==
    (J /\ op.kind = "poll" /\ op.status = 401)
      => /\ failed_polls = op.fp0
         /\ connection_state = "error"
         /\ op.outcome = "UpdateFailed"

(***************************************************************************)
(* Properties of the request loops (specification SpecRequest)             *)
(***************************************************************************)
\* The transport failures that the retry policies are about.
Transient(t) == t.kind \in {"timeout", "network"}

\* The first n transport attempts failed with a timeout or a network error.
FirstTransient(n) == \A i \in 1..n : Transient(trace[i])

\* The last transport attempt was answered 200 with a JSON object.
LastAnswered ==
    /\ Len(trace) >= 1
    /\ trace[Len(trace)].kind = "response"
    /\ trace[Len(trace)].status = 200
    /\ trace[Len(trace)].doc # None

\* C7: WLEDAPIClient._request, for every N <= 5: after N attempts that
\* failed with a timeout or network error the request goes on to attempt
\* N+1, and when that attempt succeeds the request returns its result, the
\* transport having been invoked exactly N+1 times.
C7_RetriesUntilSuccess ==
    client = "WLEDAPIClient" =>
      /\ (Len(trace) <= MAX_RETRIES /\ FirstTransient(Len(trace)))
            => (pc = "attempt" /\ calls = Len(trace))
      /\ (LastAnswered /\ Len(trace) - 1 <= MAX_RETRIES
            /\ FirstTransient(Len(trace) - 1))
            => /\ pc = "returned"
               /\ result.ok
               /\ result.val = trace[Len(trace)].doc
               /\ calls = Len(trace)

\* Five transient failures, then the sixth attempt succeeded and was
\* returned.
C7_Witness ==
    /\ client = "WLEDAPIClient"
    /\ pc = "returned"
    /\ calls = MAX_RETRIES + 1
    /\ FirstTransient(MAX_RETRIES)
    /\ result.val = trace[MAX_RETRIES + 1].doc

C9_EnhancedRetriesFiveTimes ==
    client = "enhanced" =>
      /\ (pc = "raised" /\ \A i \in 1..Len(trace) : trace[i].kind = "network")
            => /\ calls = ENHANCED_MAX_RETRIES + 1
               /\ IsInstance(result.err, "WLEDConnectionError")
      /\ (Len(trace) <= 2 /\ \A i \in 1..Len(trace) : trace[i].kind = "network")
            => pc = "attempt"
      /\ (Len(trace) = 3 /\ FirstTransient(2) /\ LastAnswered)
            => (pc = "returned" /\ result.val = trace[3].doc /\ calls = 3)

\* C10: a WLEDJSONAPIClient in simple mode, when the first N attempts fail
\* with a timeout or network error, invokes the transport exactly
\* min(N, 3) + 1 times: it returns the first successful result if N <= 3
\* and re-raises the last failure after exactly 4 attempts otherwise.
C10_SimpleRetriesThreeTimes ==
    client = "simple" =>
      /\ calls <= SIMPLE_MAX_RETRIES + 1
      /\ (LastAnswered /\ Len(trace) - 1 <= SIMPLE_MAX_RETRIES
            /\ FirstTransient(Len(trace) - 1))
            => /\ pc = "returned"
               /\ result.ok
               /\ result.val = trace[Len(trace)].doc
               /\ calls = Len(trace)
      /\ (pc = "raised" /\ FirstTransient(Len(trace)))
            => /\ calls = SIMPLE_MAX_RETRIES + 1
               /\ result.err = JAttempt(trace[Len(trace)]).err

\* An attempt that ended in an HTTP 4xx status, or in a 200 answer whose
\* body is not JSON.
NotTransient(t) ==
    /\ t.kind = "response"
    /\ \/ t.status \in 400..499
       \/ t.status = 200 /\ t.doc = None

\* C11: in every client and retry mode, an attempt that ends in an HTTP 4xx
\* status or in a JSON-parse error is the last one of its request, whose
\* failure is raised at once: the request is never retried after it.
C11_NoRetryAfter4xxOrJsonError ==
    \A i \in 1..Len(trace) :
       NotTransient(trace[i]) => (i = Len(trace) /\ pc = "raised")

CommandReturned == op.kind = "command" /\ op.outcome = "returned"
CommandFailedAtDevice ==
    /\ op.kind = "command"
    /\ op.outcome = "raised"
    /\ Len(op.steps) > 0 /\ op.steps[1] = "client.update_state"

\* C13: when async_send_command succeeds, exactly one refresh is requested,
\* and it is requested after the device answered the command and before
\* the call returns (both coordinators).
C13_RefreshOnceAfterSuccess ==
    CommandReturned =>
       /\ op.refresh = 1
       /\ \E i, j \in 1..Len(op.steps) :
             /\ i < j /\ j < Len(op.steps)
             /\ op.steps[i] = "client.update_state"
             /\ op.steps[j] = "async_request_refresh"
             /\ op.steps[Len(op.steps)] = "return"
             /\ \A k \in 1..Len(op.steps) :
                   op.steps[k] = "async_request_refresh" => k = j

C13_Witness == CommandReturned /\ J /\ op.value \in Docs /\ op.refresh = 1

\* C14: when client.update_state fails a command sent through
\* async_send_command, the coordinator's state becomes error (for
\* WLEDDataCoordinator, which keeps no connection state, the device is at
\* least marked unavailable), no refresh is requested, and the failure is
\* raised to the caller.
C14_FailedCommandSetsErrorState ==
    CommandFailedAtDevice =>
       /\ connection_state = "error" \/ (~J /\ ~available)
       /\ op.refresh = 0
       /\ op.steps[Len(op.steps)] = "raise"

\* C15: a light-entity command (turn on, turn off, set brightness, set
\* effect) that fails at the device raises to the caller of the entity
\* method; it never returns normally.
C15_LightCommandFailureSurfaces ==
    (op.kind = "light" /\ op.err # "none") => op.outcome = "raised"

(***************************************************************************)
(* The client methods                                                      *)
(***************************************************************************)
UpdateStateCalled == call.method = "update_state"
Answered200Object ==
    /\ call.answer.kind = "response"
    /\ call.answer.status = 200
    /\ call.answer.body.json = "object"

\* C16: update_state called with an empty mapping, with None or with a
\* value that is not a mapping raises a validation error before any network
\* call: the transport is invoked zero times.
C16_InvalidStateRejectedBeforeTransport ==
    (UpdateStateCalled /\ InvalidState(call.state)) =>
       /\ ~ call.result.ok
       /\ call.result.err = "WLEDInvalidCommandError"
       /\ call.result.calls = 0

\* The command set the critical field f and the device's 200 response
\* carries another value for it.
CriticalMismatch(f) ==
    /\ UpdateStateCalled
    /\ call.state.type = "dict"
    /\ Answered200Object
    /\ call.state[f] # Absent
    /\ call.answer.body[f] # Absent
    /\ call.answer.body[f] # call.state[f]

\* C17: update_state raises WLEDCommandError naming the field when the
\* command set a critical field (on or bri) and the response carries a
\* different value for it: command {on: true, bri: 128} answered by
\* {on: false, bri: 128} raises an error that mentions on.
C17_CriticalMismatchRaises ==
    \A f \in {"on", "bri"} :
       CriticalMismatch(f) =>
          /\ ~ call.result.ok
          /\ IsInstance(call.result.err, "WLEDCommandError")
          /\ f \in call.result.mentions

\* C18: update_state returns the device's response when the command was
\* {on: true, bri: 128} and the response is {on: true, bri: 127}.
C18_BrightnessMismatchReturns ==
    ( /\ UpdateStateCalled
      /\ call.state = StateArgument("dict", "true", "128")
      /\ call.answer.kind = "response" /\ call.answer.status = 200
      /\ call.answer.body = Body("object", "true", "127", Absent, Absent, Absent) )
    => /\ call.result.ok
       /\ call.result.val = call.answer.body

\* C19: update_state raises WLEDCommandError whenever the body of a 200
\* response holds an error field or success: false; such a response is
\* never returned as a result.
C19_DeviceErrorRaises ==
    ( /\ UpdateStateCalled
      /\ ~ InvalidState(call.state)
      /\ Answered200Object
      /\ call.answer.body.error # Absent \/ call.answer.body.success = "false" )
    => /\ ~ call.result.ok
       /\ IsInstance(call.result.err, "WLEDCommandError")

\* C20: for a 200 response whose body is a JSON object, get_state,
\* get_info, get_full_state and update_state raise nothing and return
\* exactly that object.
C20_ObjectBodyReturnedUnchanged ==
    ( /\ call.method \in GetMethods \cup {"update_state"}
      /\ UpdateStateCalled => ~ InvalidState(call.state)
      /\ Answered200Object )
    => /\ call.result.ok
       /\ call.result.val = call.answer.body

JClientCalled == call.client \in {"enhanced", "simple"}

\* C21: a 200 response with an empty or blank body makes the operation of
\* WLEDJSONAPIClient raise WLEDInvalidResponseError ("empty response",
\* response_data "<empty>"), and no other error kind.
C21_EmptyBodyRaisesInvalidResponse ==
    ( /\ JClientCalled
      /\ UpdateStateCalled => ~ InvalidState(call.state)
      /\ call.answer.kind = "response" /\ call.answer.status = 200
      /\ call.answer.body.json = "empty" )
    => /\ ~ call.result.ok
       /\ call.result.err = "WLEDInvalidResponseError"
       /\ call.result.response_data = "<empty>"

\* C22: a 200 response whose body is not JSON makes the operation of
\* WLEDJSONAPIClient raise WLEDInvalidJSONError carrying at most the first
\* 500 characters of the body.
C22_InvalidJsonRaisesWithPreview ==
    ( /\ JClientCalled
      /\ UpdateStateCalled => ~ InvalidState(call.state)
      /\ call.answer.kind = "response" /\ call.answer.status = 200
      /\ call.answer.body.json \in {"invalid", "invalid long"} )
    => /\ ~ call.result.ok
       /\ call.result.err = "WLEDInvalidJSONError"
       /\ call.result.response_data =
             IF call.answer.body.json = "invalid long"
             THEN "first 500 characters" ELSE "whole body"

\* C23: a response with status 400 or above raises by its status: 401
\* WLEDAuthenticationError, 404 WLEDInvalidResponseError, 5xx a
\* WLEDConnectionError, any other status WLEDHTTPError.
C23_StatusDecidesErrorKind ==
    ( /\ JClientCalled
      /\ UpdateStateCalled => ~ InvalidState(call.state)
      /\ call.answer.kind = "response" /\ call.answer.status >= 400 )
    => /\ ~ call.result.ok
       /\ IF call.answer.status = 401
          THEN call.result.err = "WLEDAuthenticationError"
          ELSE IF call.answer.status = 404
          THEN call.result.err = "WLEDInvalidResponseError"
          ELSE IF call.answer.status >= 500
          THEN IsInstance(call.result.err, "WLEDConnectionError")
          ELSE call.result.err = "WLEDHTTPError"

\* C24: the connection state of WLEDJSONAPIDataCoordinator is "unknown" at
\* creation, no step changes it to "unknown", and every poll leaves it
\* different from "unknown".
C24_UnknownOnlyInitially ==
    /\ (J => connection_state = "unknown")
    /\ [][ J => /\ (connection_state' = "unknown" => connection_state = "unknown")
                /\ (op'.kind = "poll" => connection_state' # "unknown") ]_vars

\* The first poll of a coordinator fails: the state was "unknown" and is
\* "error" now.
C24_Witness ==
    /\ J /\ PollFailed /\ connection_state = "error"
    /\ op.data0 = None /\ op.fp0 = 0

\* C25: a poll failure of the network class (timeout, DNS, refused, reset)
\* sets the connection state to "disconnected", a failure of any other
\* class sets it to "error".
C25_NetworkFailureDisconnects ==
    (J /\ PollFailed) =>
       connection_state =
          IF IsAnyInstance(op.err, {"WLEDTimeoutError", "WLEDNetworkError"})
          THEN "disconnected" ELSE "error"

\* The last poll asked the device for its presets and the refresh failed:
\* a successful refresh leaves _presets_failed_updates at 0.
PresetsRefreshFailed ==
    /\ J /\ op.kind = "poll" /\ op.presets_requested
    /\ presets_failed_updates > 0

\* C26: a failed presets refresh inside a poll leaves the poll a success:
\* the poll returns the state it fetched, the failure counter is 0, the
\* coordinator is connected and available, and nothing of the failure is
\* kept in last_error.
C26_PresetsFailureLeavesPollAlone ==
    PresetsRefreshFailed =>
       /\ op.outcome = "returned" /\ op.err = "none"
       /\ op.value \in Docs /\ data = op.value /\ op.value = last_good
       /\ failed_polls = 0
       /\ connection_state = "connected"
       /\ available
       /\ last_error = "none"

\* A poll that follows a failed poll, fetches the state and fails to
\* refresh the presets.
C26_Witness ==
    /\ PresetsRefreshFailed
    /\ op.fp0 > 0
    /\ connection_state = "connected"

\* C27: _async_update_presets_if_needed asks the device for its presets
\* only when the presets cache was never loaded from the device or was
\* last loaded at least PRESETS_UPDATE_INTERVAL ago.
C27_PresetsRequestedOnlyWhenDue ==
    (presets_log.called /\ presets_log.requested) =>
       \/ presets_log.loaded0 = None
       \/ now - presets_log.loaded0 >= PRESETS_UPDATE_INTERVAL

PlaylistActivated == J /\ op.kind = "playlist"

\* C29: async_activate_playlist with a playlist id that is not in the
\* cached playlists raises an error and sends no command to the device.
C29_UnknownPlaylistRaisesUnsent ==
    (PlaylistActivated /\ ~ PlaylistCached(presets_data, op.playlist_id)) =>
       /\ op.outcome = "raised"
       /\ \A i \in 1..Len(op.steps) : op.steps[i] # "client.update_state"

\* The numeric keys of the parsed document whose value is of kind k.
EntriesOfKind(k) ==
    { parse.data.keys[i] : i \in { j \in 1..Len(parse.data.keys) :
                                     /\ IsDigit(parse.data.keys[j])
                                     /\ parse.data.values[j] = k } }

\* C30: from_dict skips the entries with a non-numeric key and the entries
\* whose value cannot be parsed, and returns every remaining preset and
\* playlist; it does not raise.
C30_BadEntriesSkipped ==
    parse.called =>
       /\ parse.result.ok
       /\ parse.result.presets = EntriesOfKind("preset")
       /\ parse.result.playlists = EntriesOfKind("playlist")

\* C28: at most one request of a client instance is in flight at any time,
\* a command sent during a poll or its presets refresh included.
C28_OneRequestInFlight == Cardinality(InFlight(flight)) <= 1

\* The keys of the segment for the arguments that were supplied.
SuppliedKeys ==
    {"fx"} \cup (IF effect_call.speed # Unset THEN {"sx"} ELSE {})
           \cup (IF effect_call.intensity # Unset THEN {"ix"} ELSE {})
           \cup (IF effect_call.palette # Unset THEN {"pal"} ELSE {})

\* C31: the command of set_effect has the single top-level key seg, a list
\* of one segment holding fx = id and sx, ix, pal for exactly the arguments
\* supplied, with their values; (5, 128, 200, 3) gives exactly
\* {seg: [{fx: 5, sx: 128, ix: 200, pal: 3}]}.
C31_EffectCommandShape ==
    effect_call.called =>
       LET command == effect_call.command
       IN  /\ DOMAIN command = {"seg"}
           /\ Len(command.seg) = 1
           /\ DOMAIN command.seg[1] = SuppliedKeys
           /\ command.seg[1]["fx"] = effect_call.effect
           /\ "sx" \in SuppliedKeys => command.seg[1]["sx"] = effect_call.speed
           /\ "ix" \in SuppliedKeys => command.seg[1]["ix"] = effect_call.intensity
           /\ "pal" \in SuppliedKeys => command.seg[1]["pal"] = effect_call.palette
           /\ ( /\ effect_call.effect = 5 /\ effect_call.speed = 128
                /\ effect_call.intensity = 200 /\ effect_call.palette = 3 )
              => command = [ seg |-> << [ fx |-> 5, sx |-> 128, ix |-> 200,
                                          pal |-> 3 ] >> ]

\* Speed 0 supplied, intensity and palette left out.
C31_Witness ==
    /\ effect_call.called
    /\ effect_call.speed = 0 /\ effect_call.intensity = Unset
    /\ effect_call.palette = Unset
    /\ DOMAIN effect_call.command.seg[1] = {"fx", "sx"}

\* C32: test_connection never raises; it returns True when get_info()
\* returned and False when get_info() raised, whatever it raised.
C32_TestConnectionReturnsBoolean ==
    probe.called =>
       /\ probe.outcome \in { "True", "False" }
       /\ probe.outcome = "True" <=> probe.info.ok

\* get_info() of WLEDJSONAPIClient raised an exception that none of the
\* named except clauses matches, and test_connection returned False.
C32_Witness ==
    /\ probe.called /\ probe.client \in {"simple", "enhanced"}
    /\ ~ probe.info.ok
    /\ ~ IsAnyInstance(probe.info.err, {"WLEDTimeoutError", "WLEDNetworkError",
                                        "WLEDAuthenticationError",
                                        "WLEDConnectionError"})
    /\ probe.outcome = "False"

\* C33: a client constructed with a session supplied by the caller never
\* calls close() on that session, whatever requests, close() calls and
\* context-manager exits were made on the client: the supplied session is
\* closed only when the caller closed it.
C33_SuppliedSessionNeverClosed ==
    session.supplied =>
       /\ ~ session.closed_by_client
       /\ session.held = "supplied"

\* A client with a supplied session after requests, close() and __aexit__:
\* the supplied session is still open.
C33_Witness ==
    /\ session.supplied
    /\ session.requests > 0 /\ session.closes > 0 /\ session.exits > 0
    /\ session.supplied_state = "open"

\* C34: a command sent through async_send_command, whether it returns or
\* raises, leaves the failure counter as it was before the command.
C34_CommandsLeaveFailureCounter ==
    op.kind = "command" => failed_polls = op.fp0

\* C35: in WLEDJSONAPIDataCoordinator, after any polls and commands,
\* connection_state "connected" goes with a failure counter of 0, no last
\* error and available = TRUE; connection_state "error" goes with a last
\* error and available = FALSE.
C35_StateFieldsAgree ==
    coord = "wled_jsonapi" =>
       /\ connection_state = "connected" =>
             failed_polls = 0 /\ last_error = "none" /\ available
       /\ connection_state = "error" =>
             last_error # "none" /\ ~ available

\* A poll succeeded after a failure had been recorded: connected, counter
\* back at 0, last error cleared.
C35_Witness ==
    /\ coord = "wled_jsonapi"
    /\ op.kind = "poll" /\ op.outcome = "returned" /\ op.err = "none"
    /\ op.fp0 > 0
    /\ connection_state = "connected"

\* C36: when a poll and a command that were in flight together are both
\* over, (connection_state, available, failure counter, last_error) are
\* what the poll followed by the command, or the command followed by the
\* poll, would have left, starting from the fields the pair began with.
C36_OverlapIsSerializable ==
    (overlap.poll = "done" /\ overlap.command = "done") =>
       LET here == FieldsOf(failed_polls, available, connection_state, last_error)
           pr   == overlap.poll_r
           cr   == overlap.command_r
       IN  here \in { CommandEffect(PollEffect(overlap.start, pr), cr),
                      PollEffect(CommandEffect(overlap.start, cr), pr) }

\* The command's update_state() failed while the poll was suspended, and
\* the poll then failed too: both failures are counted.
C36_Witness ==
    /\ overlap.poll = "done" /\ overlap.command = "done"
    /\ overlap.overlapped
    /\ ~ overlap.poll_r.ok /\ Countable(overlap.poll_r.err)
    /\ overlap.command_r # InvalidCommand
    /\ ~ overlap.command_r.ok /\ Countable(overlap.command_r.err)
    /\ failed_polls = overlap.start.failed_polls + 2

\* The last error handled was a countable one and came from a command, not
\* from a poll (no failed poll is counted in streak), and no poll has
\* succeeded since (the error is still there).
CommandFailedLast ==
    /\ last_error # "none" /\ Countable(last_error)
    /\ streak = 0

C38_UnavailableIffThreeFailedPolls ==
    coord = "wled" =>
       /\ ~ available <=> streak >= 3
       /\ failed_polls = streak
       /\ op.kind = "command" => failed_polls = op.fp0

\* A command that failed after three failed polls: still unavailable, the
\* count still 3.
C38_Witness ==
    /\ coord = "wled"
    /\ op.kind = "command" /\ op.outcome = "raised"
    /\ streak = 3 /\ failed_polls = 3 /\ ~ available

\* C39: an async_activate_playlist that returned has requested exactly one
\* refresh, and one that raised has requested none.
C39_OneRefreshPerActivation ==
    PlaylistActivated =>
       /\ op.outcome = "returned" => op.refresh = 1
       /\ op.outcome = "raised" => op.refresh = 0

\* C40: after a presets refresh in which the device reported playlists,
\* each of them is in the coordinator's playlist cache, the last-refresh
\* time is set and the presets failure count is 0.
C40_ReportedPlaylistsCached ==
    (presets_log.called /\ presets_log.reported # {}) =>
       /\ \A pl \in presets_log.reported : PlaylistCached(presets_data, pl)
       /\ presets_last_updated # None
       /\ presets_failed_updates = 0


====
